---------------------------- MODULE Spec2Model ----------------------------
(***************************************************************************)
(* Model of the table reconciliation / partition front end of              *)
(* Custom_Merge_Excel_for_web (src/app/page.tsx, src/lib/wasm-types.ts).   *)
(*                                                                         *)
(* Cell values are JavaScript strings and are modelled as sequences of     *)
(* one-character strings, so that trim, toLowerCase, join, parseFloat and  *)
(* Number.prototype.toString are computed character by character.  Column  *)
(* names (headers, keys, labels) are only ever compared, prefixed and      *)
(* joined by the code, and are modelled as TLA+ strings combined with \o.  *)
(* Array indices keep their JavaScript (0-based) values.                   *)
(***************************************************************************)
EXTENDS Integers, Sequences, FiniteSets, TLC

VARIABLES
    \* ---- KeyBuilder harness (combineKeys on one row) ----
    keyRow,               \* the row handed to combineKeys
    keyOpts,              \* the CompareOptions handed to combineKeys
    keyOut,               \* set of <<keyIndices, key>> pairs computed so far
    \* ---- compare state of Home (page.tsx 246-279) ----
    leftData,             \* TableData | null
    rightData,            \* TableData | null
    compareKeys,          \* string[]
    compareColumns,       \* { left, right, label }[]
    compareOptions,       \* { trim, case_insensitive }
    sortByKeys,           \* boolean
    compareResult,        \* CompareOutput with the helper column removed | null
    mergedResult,         \* TableData | null
    selectedColumns,      \* string[]
    columnOrder,          \* string[]
    sortColumns,          \* { column, direction }[]
    \* ---- split state of Home (page.tsx 442-449) ----
    splitData,            \* TableData | null
    splitKeys,            \* string[]
    splitResult,          \* SplitOutput with the helper column removed | null
    selectedSplitColumns, \* string[]
    splitColumnOrder,     \* string[]
    splitSortColumns,     \* { column, direction }[]
    zipFiles,             \* entries written by the last handleDownloadSplit
    \* ---- the engine's last call: its input, the key selection and whether
    \*      the tables were loaded when it was made, and, per bucket or part,
    \*      the input rows it placed there (bookkeeping of the model) ----
    engineCall,
    \* ---- the message of the last alert() shown, "" before the first ----
    lastAlert,
    \* ---- the chosen files (page.tsx 246-247, 442) and the calls of
    \*      readExcelFile that have not settled yet, oldest first ----
    leftFile,             \* File | null
    rightFile,            \* File | null
    splitFile,            \* File | null
    reads,                \* handlers waiting at `await readExcelFile(file)`
    \* ---- theme state (page.tsx 242-243, 498-521; RootLayout) ----
    currentTheme,         \* Theme
    showThemeMenu,        \* boolean
    storedTheme,          \* localStorage item "theme": a string, "" when absent
    rootClass,            \* the theme classes of document.documentElement
    themeEffects,         \* the inline script and effects still to run, in order
    storedAtLoad,         \* storedTheme when the page was last loaded (bookkeeping
                          \* of the model), "" once the user has chosen a theme
    \* ---- the column being dragged in the column order list (page.tsx 280) ----
    draggedColumn         \* string | null

keyVars == <<keyRow, keyOpts, keyOut>>

compareVars ==
    <<leftData, rightData, compareKeys, compareColumns, compareOptions, sortByKeys,
      compareResult, mergedResult, selectedColumns, columnOrder, sortColumns>>

splitVars ==
    <<splitData, splitKeys, splitResult, selectedSplitColumns, splitColumnOrder,
      splitSortColumns, zipFiles>>

fileVars == <<leftFile, rightFile, splitFile, reads>>

themeVars ==
    <<currentTheme, showThemeMenu, storedTheme, rootClass, themeEffects, storedAtLoad>>

stateVars ==
    <<keyVars, compareVars, splitVars, engineCall, fileVars, themeVars, draggedColumn>>

vars == <<stateVars, lastAlert>>

\* null
Null == [null |-> TRUE]

\* a File: its name and what readExcelFile resolves to for it, Null when
\* readExcelFile rejects (the reader fails, the workbook cannot be parsed or
\* the sheet is empty)
File(name, data) == [name |-> name, data |-> data]

\* the file a loaded table was read from
FileOf(data) == IF data = Null THEN Null ELSE File("book", data)

\* the page has been loaded with no stored theme and its mount effects have
\* run: the default theme is current, applied and stored, the menu is closed
ThemeMounted ==
    /\ currentTheme = "dark"
    /\ showThemeMenu = FALSE
    /\ storedTheme = "dark"
    /\ rootClass = {"dark"}
    /\ themeEffects = <<>>
    /\ storedAtLoad = ""

\* no call of readExcelFile is waiting and each table is the content of the
\* file it was read from
FilesAsLoaded ==
    /\ leftFile = FileOf(leftData)
    /\ rightFile = FileOf(rightData)
    /\ splitFile = FileOf(splitData)
    /\ reads = <<>>

-----------------------------------------------------------------------------
(* JavaScript string primitives over character sequences *)

\* the empty string ""
EmptyStr == <<>>

\* White space as String.prototype.trim and parseFloat see it.
IsWhiteSpace(c) == c \in {" ", "\t"}

IsDigit(c) == c \in {"0", "1", "2", "3", "4", "5", "6", "7", "8", "9"}

DigitValue(c) ==
    CASE c = "0" -> 0 [] c = "1" -> 1 [] c = "2" -> 2 [] c = "3" -> 3
      [] c = "4" -> 4 [] c = "5" -> 5 [] c = "6" -> 6 [] c = "7" -> 7
      [] c = "8" -> 8 [] c = "9" -> 9

DigitChar(d) ==
    CASE d = 0 -> "0" [] d = 1 -> "1" [] d = 2 -> "2" [] d = 3 -> "3"
      [] d = 4 -> "4" [] d = 5 -> "5" [] d = 6 -> "6" [] d = 7 -> "7"
      [] d = 8 -> "8" [] d = 9 -> "9"

\* One character of String.prototype.toLowerCase.
LowerChar(c) ==
    CASE c = "A" -> "a" [] c = "B" -> "b" [] c = "X" -> "x" [] OTHER -> c

\* String.prototype.toLowerCase
toLowerCase(s) == [i \in 1..Len(s) |-> LowerChar(s[i])]

RECURSIVE TrimStart(_)
TrimStart(s) ==
    IF s = <<>> THEN <<>>
    ELSE IF IsWhiteSpace(Head(s)) THEN TrimStart(Tail(s)) ELSE s

RECURSIVE TrimEnd(_)
TrimEnd(s) ==
    IF s = <<>> THEN <<>>
    ELSE IF IsWhiteSpace(s[Len(s)]) THEN TrimEnd(SubSeq(s, 1, Len(s) - 1)) ELSE s

\* String.prototype.trim
trim(s) == TrimEnd(TrimStart(s))

\* Array.prototype.join of an array of strings with a one-character separator
RECURSIVE join(_, _)
join(values, sep) ==
    IF values = <<>> THEN <<>>
    ELSE IF Len(values) = 1 THEN values[1]
    ELSE values[1] \o <<sep>> \o join(Tail(values), sep)

\* row[idx] || "" : an index outside the array (or -1) reads undefined,
\* and undefined and "" both yield "".
CellOrEmpty(row, idx) ==
    IF idx >= 0 /\ idx < Len(row) THEN row[idx + 1] ELSE EmptyStr

\* Array.prototype.indexOf: the first 0-based index of x, or -1
IndexOf(arr, x) ==
    IF \E i \in 1..Len(arr) : arr[i] = x
    THEN (CHOOSE i \in 1..Len(arr) : arr[i] = x /\ \A j \in 1..(i - 1) : arr[j] # x) - 1
    ELSE -1

\* Array.prototype.includes
Includes(arr, x) == \E i \in 1..Len(arr) : arr[i] = x

\* Array.prototype.filter with the predicate given as the set of kept values
RECURSIVE FilterIn(_, _)
FilterIn(arr, keep) ==
    IF arr = <<>> THEN <<>>
    ELSE IF Head(arr) \in keep THEN <<Head(arr)>> \o FilterIn(Tail(arr), keep)
    ELSE FilterIn(Tail(arr), keep)

\* Array.prototype.filter((_, i) => i !== idx) with a 0-based idx
RemoveAt(arr, idx) ==
    IF idx >= 0 /\ idx < Len(arr)
    THEN SubSeq(arr, 1, idx) \o SubSeq(arr, idx + 2, Len(arr))
    ELSE arr

\* A JavaScript number as far as the model needs it: NaN or an integer.
NaN == [nan |-> TRUE, value |-> 0]
Num(n) == [nan |-> FALSE, value |-> n]

RECURSIVE DigitsValue(_, _)
DigitsValue(s, acc) ==
    IF s = <<>> \/ ~IsDigit(Head(s)) THEN acc
    ELSE DigitsValue(Tail(s), 10 * acc + DigitValue(Head(s)))

\* parseFloat: skips leading white space, reads an optional sign and the
\* longest run of digits, ignores whatever follows, and yields NaN when no
\* digit is found.  (Cells of the model contain no '.', 'e' or "Infinity",
\* so the decimal literal is sign and digits.)
parseFloat(s) ==
    LET t    == TrimStart(s)
        neg  == t # <<>> /\ Head(t) = "-"
        body == IF t # <<>> /\ Head(t) \in {"-", "+"} THEN Tail(t) ELSE t
    IN  IF body = <<>> \/ ~IsDigit(Head(body)) THEN NaN
        ELSE Num(IF neg THEN 0 - DigitsValue(body, 0) ELSE DigitsValue(body, 0))

\* x || 0 for a number x: NaN and 0 are falsy
OrZero(x) == IF x.nan THEN Num(0) ELSE x

RECURSIVE NatToString(_)
NatToString(n) ==
    IF n < 10 THEN <<DigitChar(n)>>
    ELSE NatToString(n \div 10) \o <<DigitChar(n % 10)>>

\* Number.prototype.toString of an integer
NumberToString(n) == IF n < 0 THEN <<"-">> \o NatToString(0 - n) ELSE NatToString(n)

\* Collation weight of a character: white space, then punctuation, then
\* digits, then letters; upper and lower case share the primary weight.
PrimaryWeight(c) ==
    CASE c = "\t" -> 1 [] c = " " -> 2 [] c = "-" -> 3 [] c = "|" -> 4
      [] IsDigit(c) -> 10 + DigitValue(c)
      [] c \in {"a", "A"} -> 20 [] c \in {"b", "B"} -> 21
      [] c \in {"x", "X"} -> 30 [] c \in {"y", "Y"} -> 31
      [] OTHER -> 40

IsUpper(c) == LowerChar(c) # c

RECURSIVE CompareWeights(_, _)
CompareWeights(a, b) ==
    IF a = <<>> /\ b = <<>> THEN 0
    ELSE IF a = <<>> THEN -1
    ELSE IF b = <<>> THEN 1
    ELSE IF PrimaryWeight(Head(a)) < PrimaryWeight(Head(b)) THEN -1
    ELSE IF PrimaryWeight(Head(a)) > PrimaryWeight(Head(b)) THEN 1
    ELSE CompareWeights(Tail(a), Tail(b))

RECURSIVE CompareCase(_, _)
CompareCase(a, b) ==
    IF a = <<>> \/ b = <<>> THEN 0
    ELSE IF ~IsUpper(Head(a)) /\ IsUpper(Head(b)) THEN -1
    ELSE IF IsUpper(Head(a)) /\ ~IsUpper(Head(b)) THEN 1
    ELSE CompareCase(Tail(a), Tail(b))

\* String.prototype.localeCompare: primary weights decide, letter case breaks
\* a primary tie (lower case first)
localeCompare(a, b) ==
    IF CompareWeights(a, b) # 0 THEN CompareWeights(a, b) ELSE CompareCase(a, b)

-----------------------------------------------------------------------------
(* Array.prototype.sort.  cmp[i][j] is the comparator's result for the      *)
(* elements at the 1-based input positions i and j; the result is the       *)
(* sequence of input positions in output order.  ECMAScript requires the    *)
(* sort to be stable; short arrays are sorted by insertion.                 *)

\* insert position i into the sorted prefix: move left past every element
\* that compares greater, stop at the first that does not
RECURSIVE Insert(_, _, _)
Insert(sorted, i, cmp) ==
    IF sorted = <<>> THEN <<i>>
    ELSE IF cmp[sorted[Len(sorted)]][i] > 0
         THEN Append(Insert(SubSeq(sorted, 1, Len(sorted) - 1), i, cmp),
                     sorted[Len(sorted)])
         ELSE Append(sorted, i)

RECURSIVE SortOrder(_, _)
SortOrder(n, cmp) ==
    IF n = 0 THEN <<>> ELSE Insert(SortOrder(n - 1, cmp), n, cmp)

\* the elements of arr in the given order of positions
Permute(arr, order) == [k \in 1..Len(order) |-> arr[order[k]]]

-----------------------------------------------------------------------------
(* KeyBuilder: combineKeys *)

\* combineKeys with the normalisation applied to every segment before the
\* join instead of to the joined string.
combineKeysPerSegment(row, keyIndices, options) ==
    LET norm(v) ==
            LET t == IF options.trim THEN trim(v) ELSE v
            IN  IF options.case_insensitive THEN toLowerCase(t) ELSE t
        values == [i \in 1..Len(keyIndices) |-> norm(CellOrEmpty(row, keyIndices[i]))]
    IN  join(values, "|")

\* combineKeys reading the key columns in ascending index order instead of
\* the order given.
combineKeysSortedIndices(row, keyIndices, options) ==
    LET n == Len(keyIndices)
        rank(i) == Cardinality({ j \in 1..n :
                        \/ keyIndices[j] < keyIndices[i]
                        \/ (keyIndices[j] = keyIndices[i] /\ j <= i) })
        sorted == [r \in 1..n |-> keyIndices[CHOOSE i \in 1..n : rank(i) = r]]
        values == [i \in 1..n |-> CellOrEmpty(row, sorted[i])]
        combined  == join(values, "|")
        combined2 == IF options.trim THEN trim(combined) ELSE combined
    IN  IF options.case_insensitive THEN toLowerCase(combined2) ELSE combined2

combineKeys(row, keyIndices, options) ==
    LET values    == [i \in 1..Len(keyIndices) |-> CellOrEmpty(row, keyIndices[i])]
        combined  == join(values, "|")
        combined2 == IF options.trim THEN trim(combined) ELSE combined
        combined3 == IF options.case_insensitive THEN toLowerCase(combined2) ELSE combined2
    IN  combined3


-----------------------------------------------------------------------------
(* Column selection and the user sort *)

filterColumns(data, columns, order) ==
    LET inColumns == { columns[i] : i \in 1..Len(columns) }
        inOrder   == { order[i] : i \in 1..Len(order) }
        orderedColumns ==
            IF Len(order) > 0
            THEN FilterIn(order, inColumns) \o FilterIn(columns, inColumns \ inOrder)
            ELSE columns
        allIndices == [i \in 1..Len(orderedColumns) |-> IndexOf(data.headers, orderedColumns[i])]
        columnIndices == FilterIn(allIndices, 0..(Len(data.headers) - 1))
        inHeaders == { data.headers[i] : i \in 1..Len(data.headers) }
    IN  [ headers |-> FilterIn(orderedColumns, inHeaders),
          rows    |-> [r \in 1..Len(data.rows) |->
                         [c \in 1..Len(columnIndices) |->
                             CellOrEmpty(data.rows[r], columnIndices[c])]] ]

\* the comparator with the tie case replaced by "greater": a comparator of
\* the form (x < y ? -1 : 1) per sort column
RECURSIVE userSortCompareNoTie(_, _, _, _)
userSortCompareNoTie(a, b, headers, sortCols) ==
    IF sortCols = <<>> THEN 1
    ELSE
        LET sortCol == Head(sortCols)
            sortIdx == IndexOf(headers, sortCol.column)
            aVal    == OrZero(parseFloat(CellOrEmpty(a, sortIdx)))
            bVal    == OrZero(parseFloat(CellOrEmpty(b, sortIdx)))
            result  == IF sortCol.direction = "asc"
                       THEN aVal.value - bVal.value ELSE bVal.value - aVal.value
        IN  IF sortIdx = -1 THEN userSortCompareNoTie(a, b, headers, Tail(sortCols))
            ELSE IF result # 0 THEN result
            ELSE userSortCompareNoTie(a, b, headers, Tail(sortCols))

\* the comparator that stops at a sort column the table does not have
\* instead of going on to the next one
RECURSIVE userSortCompareStopAtAbsent(_, _, _, _)
userSortCompareStopAtAbsent(a, b, headers, sortCols) ==
    IF sortCols = <<>> THEN 0
    ELSE
        LET sortCol == Head(sortCols)
            sortIdx == IndexOf(headers, sortCol.column)
            aVal    == OrZero(parseFloat(CellOrEmpty(a, sortIdx)))
            bVal    == OrZero(parseFloat(CellOrEmpty(b, sortIdx)))
            result  == IF sortCol.direction = "asc"
                       THEN aVal.value - bVal.value ELSE bVal.value - aVal.value
        IN  IF sortIdx = -1 THEN 0
            ELSE IF result # 0 THEN result
            ELSE userSortCompareStopAtAbsent(a, b, headers, Tail(sortCols))

\* the comparator of the user sort (the same text at 414-433, 467-485 and
\* 1106-1124): the value returned for rows a and b
RECURSIVE userSortCompare(_, _, _, _)
userSortCompare(a, b, headers, sortCols) ==
    IF sortCols = <<>> THEN 0
    ELSE
        LET sortCol == Head(sortCols)
            sortIdx == IndexOf(headers, sortCol.column)
            aVal    == OrZero(parseFloat(CellOrEmpty(a, sortIdx)))
            bVal    == OrZero(parseFloat(CellOrEmpty(b, sortIdx)))
            aStr    == CellOrEmpty(a, sortIdx)
            bStr    == CellOrEmpty(b, sortIdx)
            result  ==
                IF aVal.nan \/ bVal.nan
                THEN IF sortCol.direction = "asc"
                     THEN localeCompare(aStr, bStr) ELSE localeCompare(bStr, aStr)
                ELSE IF sortCol.direction = "asc"
                     THEN aVal.value - bVal.value ELSE bVal.value - aVal.value
        IN  IF sortIdx = -1 THEN userSortCompare(a, b, headers, Tail(sortCols))
            ELSE IF result # 0 THEN result
            ELSE userSortCompare(a, b, headers, Tail(sortCols))

\* [...filteredData.rows].sort(comparator): the input positions in output order
userSortOrder(filteredData, sortCols) ==
    LET n   == Len(filteredData.rows)
        cmp == [i \in 1..n |-> [j \in 1..n |->
                   userSortCompare(filteredData.rows[i], filteredData.rows[j],
                                   filteredData.headers, sortCols)]]
    IN  IF Len(sortCols) = 0 THEN [k \in 1..n |-> k] ELSE SortOrder(n, cmp)

\* the table the user sort is applied to (mergedResult restricted to the
\* selected columns), or Null
filteredMergedResult ==
    IF mergedResult = Null THEN Null
    ELSE filterColumns(mergedResult, selectedColumns, columnOrder)

\* positions of the rows of filteredMergedResult in the order shown
sortedMergedOrder ==
    IF mergedResult = Null THEN <<>> ELSE userSortOrder(filteredMergedResult, sortColumns)

\* the memoised value sortedMergedResult
sortedMergedResult ==
    IF mergedResult = Null THEN Null
    ELSE [ headers |-> filteredMergedResult.headers,
           rows    |-> Permute(filteredMergedResult.rows, sortedMergedOrder) ]

\* the state of Home after construction (the useState initial values)
HomeInit ==
    /\ leftData = Null /\ rightData = Null
    /\ compareKeys = <<>> /\ compareColumns = <<>>
    /\ compareOptions = [trim |-> TRUE, case_insensitive |-> FALSE]
    /\ sortByKeys = TRUE
    /\ compareResult = Null /\ mergedResult = Null
    /\ selectedColumns = <<>> /\ columnOrder = <<>> /\ sortColumns = <<>>
    /\ splitData = Null /\ splitKeys = <<>> /\ splitResult = Null
    /\ selectedSplitColumns = <<>> /\ splitColumnOrder = <<>>
    /\ splitSortColumns = <<>> /\ zipFiles = <<>>
    /\ engineCall = Null
    /\ lastAlert = ""
    /\ FilesAsLoaded
    /\ ThemeMounted
    /\ draggedColumn = Null

-----------------------------------------------------------------------------
(* The reconciliation engine (excel-merge-wasm, reached through             *)
(* WasmModule.compare_files).  Its source is not part of the front end; it  *)
(* is modelled from the design document, sections 4.1, 4.2 and 6.            *)

\* the column the engine reads the key from: the column named input.key
EngineKeyIndex(headers, key) == IndexOf(headers, key)

\* KeyBuilder on the engine's single key column
EngineKey(row, keyIdx, options) ==
    LET v == CellOrEmpty(row, keyIdx)
        t == IF options.trim THEN trim(v) ELSE v
    IN  IF options.case_insensitive THEN toLowerCase(t) ELSE t

\* the elements of a finite set of integers in ascending order
RECURSIVE Ascending(_)
Ascending(S) ==
    IF S = {} THEN <<>>
    ELSE LET m == CHOOSE x \in S : \A y \in S : x <= y
         IN  <<m>> \o Ascending(S \ {m})

\* classification that pairs rows of an ambiguous key in input order and
\* leaves only the surplus in duplicates
ClassifyPairingDuplicates(leftKeys, rightKeys) ==
    LET nl == Len(leftKeys)
        nr == Len(rightKeys)
        occL(i) == Cardinality({ x \in 1..i : leftKeys[x] = leftKeys[i] })
        occR(j) == Cardinality({ y \in 1..j : rightKeys[y] = rightKeys[j] })
        partner(i) == { j \in 1..nr : rightKeys[j] = leftKeys[i] /\ occR(j) = occL(i) }
        paired == { i \in 1..nl : partner(i) # {} }
        pairedR == { j \in 1..nr : \E i \in paired : j \in partner(i) }
        onR(i) == { j \in 1..nr : rightKeys[j] = leftKeys[i] }
        onL(j) == { i \in 1..nl : leftKeys[i] = rightKeys[j] }
    IN  [ matched    |-> [k \in 1..Cardinality(paired) |->
                            LET i == Ascending(paired)[k]
                            IN  <<i, CHOOSE j \in partner(i) : TRUE>>],
          left_only  |-> Ascending({ i \in 1..nl : onR(i) = {} }),
          right_only |-> Ascending({ j \in 1..nr : onL(j) = {} }),
          dup_left   |-> Ascending({ i \in (1..nl) \ paired : onR(i) # {} }),
          dup_right  |-> Ascending({ j \in (1..nr) \ pairedR : onL(j) # {} }) ]

\* classification that never pairs: every row of a key present on both
\* sides goes to duplicates
ClassifyWithoutMatching(leftKeys, rightKeys) ==
    LET nl == Len(leftKeys)
        nr == Len(rightKeys)
        onL(k) == { i \in 1..nl : leftKeys[i] = k }
        onR(k) == { j \in 1..nr : rightKeys[j] = k }
    IN  [ matched    |-> <<>>,
          left_only  |-> Ascending({ i \in 1..nl : onR(leftKeys[i]) = {} }),
          right_only |-> Ascending({ j \in 1..nr : onL(rightKeys[j]) = {} }),
          dup_left   |-> Ascending({ i \in 1..nl : onR(leftKeys[i]) # {} }),
          dup_right  |-> Ascending({ j \in 1..nr : onL(rightKeys[j]) # {} }) ]

\* classification that treats every key with more than one row on a side as
\* ambiguous, also when the other side does not have the key
ClassifyRepeatedAsDuplicates(leftKeys, rightKeys) ==
    LET nl == Len(leftKeys)
        nr == Len(rightKeys)
        onL(k) == { i \in 1..nl : leftKeys[i] = k }
        onR(k) == { j \in 1..nr : rightKeys[j] = k }
        unique(k) == Cardinality(onL(k)) = 1 /\ Cardinality(onR(k)) = 1
        repeated(k) == Cardinality(onL(k)) > 1 \/ Cardinality(onR(k)) > 1
        matchedL == { i \in 1..nl : unique(leftKeys[i]) }
    IN  [ matched    |-> [k \in 1..Cardinality(matchedL) |->
                            LET i == Ascending(matchedL)[k]
                            IN  <<i, CHOOSE j \in onR(leftKeys[i]) : TRUE>>],
          left_only  |-> Ascending({ i \in 1..nl :
                            onR(leftKeys[i]) = {} /\ ~repeated(leftKeys[i]) }),
          right_only |-> Ascending({ j \in 1..nr :
                            onL(rightKeys[j]) = {} /\ ~repeated(rightKeys[j]) }),
          dup_left   |-> Ascending({ i \in 1..nl : repeated(leftKeys[i]) }),
          dup_right  |-> Ascending({ j \in 1..nr : repeated(rightKeys[j]) }) ]

\* 4.2 steps 2-5: the input rows (1-based positions) of each bucket
Classify(leftKeys, rightKeys) ==
    LET nl == Len(leftKeys)
        nr == Len(rightKeys)
        onL(k) == { i \in 1..nl : leftKeys[i] = k }
        onR(k) == { j \in 1..nr : rightKeys[j] = k }
        unique(k) == Cardinality(onL(k)) = 1 /\ Cardinality(onR(k)) = 1
        matchedL == { i \in 1..nl : unique(leftKeys[i]) }
    IN  [ matched    |-> [k \in 1..Cardinality(matchedL) |->
                            LET i == Ascending(matchedL)[k]
                            IN  <<i, CHOOSE j \in onR(leftKeys[i]) : TRUE>>],
          left_only  |-> Ascending({ i \in 1..nl : onR(leftKeys[i]) = {} }),
          right_only |-> Ascending({ j \in 1..nr : onL(rightKeys[j]) = {} }),
          dup_left   |-> Ascending({ i \in 1..nl :
                            onR(leftKeys[i]) # {} /\ ~unique(leftKeys[i]) }),
          dup_right  |-> Ascending({ j \in 1..nr :
                            onL(rightKeys[j]) # {} /\ ~unique(rightKeys[j]) }) ]

\* the cells of a row in all columns but the key column, padded to the headers
NonKeyCells(row, headers, keyIdx) ==
    LET idx == Ascending((0..(Len(headers) - 1)) \ {keyIdx})
    IN  [c \in 1..Len(idx) |-> CellOrEmpty(row, idx[c])]

Prefixed(prefix, headers, keyIdx) ==
    LET idx == Ascending((0..(Len(headers) - 1)) \ {keyIdx})
    IN  [c \in 1..Len(idx) |-> prefix \o headers[idx[c] + 1]]

Blanks(n) == [c \in 1..n |-> EmptyStr]

\* compare_files: the four buckets, all with the header layout of 4.2 step 6
\* (key, L__ columns, R__ columns), a row of one side leaving the other
\* side's cells empty; `rows` records the input rows of each bucket
compare_files(input) ==
    LET lk == EngineKeyIndex(input.left_headers, input.key)
        rk == EngineKeyIndex(input.right_headers, input.key)
        leftKeys  == [i \in 1..Len(input.left_rows) |->
                        EngineKey(input.left_rows[i], lk, input.options)]
        rightKeys == [j \in 1..Len(input.right_rows) |->
                        EngineKey(input.right_rows[j], rk, input.options)]
        cls == Classify(leftKeys, rightKeys)
        headers == <<input.key>> \o Prefixed("L__", input.left_headers, lk)
                                 \o Prefixed("R__", input.right_headers, rk)
        nlc == Len(input.left_headers) - 1
        nrc == Len(input.right_headers) - 1
        leftRow(i)  == <<CellOrEmpty(input.left_rows[i], lk)>>
                          \o NonKeyCells(input.left_rows[i], input.left_headers, lk)
                          \o Blanks(nrc)
        rightRow(j) == <<CellOrEmpty(input.right_rows[j], rk)>>
                          \o Blanks(nlc)
                          \o NonKeyCells(input.right_rows[j], input.right_headers, rk)
        pairRow(p)  == <<CellOrEmpty(input.left_rows[p[1]], lk)>>
                          \o NonKeyCells(input.left_rows[p[1]], input.left_headers, lk)
                          \o NonKeyCells(input.right_rows[p[2]], input.right_headers, rk)
        table(rows) == [headers |-> headers, rows |-> rows]
    IN  [ output |->
            [ result     |-> table([k \in 1..Len(cls.matched) |-> pairRow(cls.matched[k])]),
              left_only  |-> table([k \in 1..Len(cls.left_only) |-> leftRow(cls.left_only[k])]),
              right_only |-> table([k \in 1..Len(cls.right_only) |-> rightRow(cls.right_only[k])]),
              duplicates |-> table([k \in 1..Len(cls.dup_left) |-> leftRow(cls.dup_left[k])]
                                \o [k \in 1..Len(cls.dup_right) |-> rightRow(cls.dup_right[k])]),
              log        |-> << <<"info", "matched", Len(cls.matched)>>,
                                <<"info", "left_only", Len(cls.left_only)>>,
                                <<"info", "right_only", Len(cls.right_only)>>,
                                <<"warn", "duplicates_left", Len(cls.dup_left)>>,
                                <<"warn", "duplicates_right", Len(cls.dup_right)>> >> ],
          rows |-> cls,
          leftKeys |-> leftKeys,
          rightKeys |-> rightKeys ]

-----------------------------------------------------------------------------
(* handleCompare *)

\* compareKeys.join("|") on column names
RECURSIVE JoinNames(_)
JoinNames(names) ==
    IF names = <<>> THEN ""
    ELSE IF Len(names) = 1 THEN names[1]
    ELSE names[1] \o "|" \o JoinNames(Tail(names))

\* the comparator of sortByKeyColumns
RECURSIVE keyColumnCompare(_, _, _, _)
keyColumnCompare(a, b, keyIndices, options) ==
    IF keyIndices = <<>> THEN 0
    ELSE
        LET keyIdx == Head(keyIndices)
            norm(v) == LET t == IF options.trim THEN trim(v) ELSE v
                       IN  IF options.case_insensitive THEN toLowerCase(t) ELSE t
            aVal == norm(CellOrEmpty(a, keyIdx))
            bVal == norm(CellOrEmpty(b, keyIdx))
            aNum == parseFloat(aVal)
            bNum == parseFloat(bVal)
            diff == IF ~aNum.nan /\ ~bNum.nan THEN aNum.value - bNum.value
                    ELSE localeCompare(aVal, bVal)
        IN  IF diff # 0 THEN diff ELSE keyColumnCompare(a, b, Tail(keyIndices), options)

sortByKeyColumns(data, keyColumns, options) ==
    LET allIndices == [i \in 1..Len(keyColumns) |-> IndexOf(data.headers, keyColumns[i])]
        keyIndices == FilterIn(allIndices, 0..(Len(data.headers) - 1))
        n   == Len(data.rows)
        cmp == [i \in 1..n |-> [j \in 1..n |->
                   keyColumnCompare(data.rows[i], data.rows[j], keyIndices, options)]]
    IN  IF Len(keyIndices) = 0 THEN data
        ELSE [headers |-> data.headers, rows |-> Permute(data.rows, SortOrder(n, cmp))]

\* headers and rows with the helper composite-key column appended
withCombinedKey(data, keys, options, combinedKeyName) ==
    LET keyIndices == [i \in 1..Len(keys) |-> IndexOf(data.headers, keys[i])]
    IN  [ headers |-> Append(data.headers, combinedKeyName),
          rows    |-> [r \in 1..Len(data.rows) |->
                         Append(data.rows[r], combineKeys(data.rows[r], keyIndices, options))] ]

\* the CompareInput built by handleCompare
compareInput ==
    LET sortedLeftData  == IF sortByKeys
                           THEN sortByKeyColumns(leftData, compareKeys, compareOptions)
                           ELSE leftData
        sortedRightData == IF sortByKeys
                           THEN sortByKeyColumns(rightData, compareKeys, compareOptions)
                           ELSE rightData
        combinedKeyName == JoinNames(compareKeys)
        left  == withCombinedKey(sortedLeftData, compareKeys, compareOptions, combinedKeyName)
        right == withCombinedKey(sortedRightData, compareKeys, compareOptions, combinedKeyName)
    IN  [ left_headers  |-> left.headers,
          left_rows     |-> left.rows,
          right_headers |-> right.headers,
          right_rows    |-> right.rows,
          key           |-> combinedKeyName,
          options       |-> compareOptions ]

removeCombinedKey(data, combinedKeyName) ==
    LET keyIdx == IndexOf(data.headers, combinedKeyName)
    IN  IF keyIdx = -1 THEN data
        ELSE [ headers |-> RemoveAt(data.headers, keyIdx),
               rows    |-> [r \in 1..Len(data.rows) |-> RemoveAt(data.rows[r], keyIdx)] ]

\* the engine's output with the helper column removed from every bucket
withoutCombinedKey(result, combinedKeyName) ==
    [ result     |-> removeCombinedKey(result.result, combinedKeyName),
      left_only  |-> removeCombinedKey(result.left_only, combinedKeyName),
      right_only |-> removeCombinedKey(result.right_only, combinedKeyName),
      duplicates |-> removeCombinedKey(result.duplicates, combinedKeyName),
      log        |-> result.log ]

\* the merged rows without the rows of the duplicates bucket
mergedRowsWithoutDuplicates(result) ==
    result.result.rows \o result.left_only.rows \o result.right_only.rows

mergedRows(result) ==
    result.result.rows \o result.left_only.rows \o result.right_only.rows
        \o result.duplicates.rows

\* header === `L__${key}` || header === `R__${key}` for some compare key
IsKeyColumn(header, keys) ==
    \E i \in 1..Len(keys) : header = "L__" \o keys[i] \/ header = "R__" \o keys[i]

\* header.replace(/^(L__|R__)/, '') of a header for which IsKeyColumn holds
KeyNameOf(header, keys) ==
    keys[CHOOSE i \in 1..Len(keys) : header = "L__" \o keys[i] \/ header = "R__" \o keys[i]]

\* processedKeys after the header loop
processedKeys(mergedHeaders, keys) ==
    { KeyNameOf(mergedHeaders[i], keys) :
        i \in { j \in 1..Len(mergedHeaders) : IsKeyColumn(mergedHeaders[j], keys) } }

RECURSIVE unifyHeaders(_, _, _)
unifyHeaders(mergedHeaders, keys, processed) ==
    IF mergedHeaders = <<>> THEN <<>>
    ELSE LET header == Head(mergedHeaders)
         IN  IF IsKeyColumn(header, keys)
             THEN LET keyName == KeyNameOf(header, keys)
                  IN  IF keyName \notin processed
                      THEN <<keyName>> \o unifyHeaders(Tail(mergedHeaders), keys,
                                                       processed \cup {keyName})
                      ELSE unifyHeaders(Tail(mergedHeaders), keys, processed)
             ELSE <<header>> \o unifyHeaders(Tail(mergedHeaders), keys, processed)

\* rowMap.get(name) || "" where rowMap was filled by
\* mergedHeaders.forEach((header, idx) => rowMap.set(header, row[idx] || "")):
\* a later column of the same name overwrites an earlier one
rowMapGet(mergedHeaders, row, name) ==
    LET at == { i \in 1..Len(mergedHeaders) : mergedHeaders[i] = name }
    IN  IF at = {} THEN EmptyStr
        ELSE CellOrEmpty(row, (CHOOSE i \in at : \A j \in at : j <= i) - 1)

\* a || b for strings
OrStr(a, b) == IF a = EmptyStr THEN b ELSE a

\* the unified row that copies the cells of the bucket row and drops those of
\* folded key columns, instead of reading one value per unified header
unifyRowByCopy(row, mergedHeaders, unifiedHeaders, processed) ==
    LET keep == { i \in 1..Len(row) :
                    i > Len(mergedHeaders) \/ mergedHeaders[i] \in
                        { unifiedHeaders[h] : h \in 1..Len(unifiedHeaders) } }
        idx  == Ascending(keep)
    IN  [c \in 1..Len(idx) |-> row[idx[c]]]

\* the unified row that takes a folded key from the R__ column first
unifyRowRightFirst(row, mergedHeaders, unifiedHeaders, processed) ==
    [h \in 1..Len(unifiedHeaders) |->
        IF unifiedHeaders[h] \in processed
        THEN OrStr(rowMapGet(mergedHeaders, row, "R__" \o unifiedHeaders[h]),
                   rowMapGet(mergedHeaders, row, "L__" \o unifiedHeaders[h]))
        ELSE rowMapGet(mergedHeaders, row, unifiedHeaders[h])]

unifyRow(row, mergedHeaders, unifiedHeaders, processed) ==
    [h \in 1..Len(unifiedHeaders) |->
        IF unifiedHeaders[h] \in processed
        THEN OrStr(rowMapGet(mergedHeaders, row, "L__" \o unifiedHeaders[h]),
                   rowMapGet(mergedHeaders, row, "R__" \o unifiedHeaders[h]))
        ELSE rowMapGet(mergedHeaders, row, unifiedHeaders[h])]

\* the diff specs that take part: left, right and label all non-empty
RECURSIVE activeDiffs(_)
activeDiffs(cols) ==
    IF cols = <<>> THEN <<>>
    ELSE IF Head(cols).left # "" /\ Head(cols).right # "" /\ Head(cols).label # ""
         THEN <<Head(cols)>> \o activeDiffs(Tail(cols))
         ELSE activeDiffs(Tail(cols))

\* the diff cell with a cell that does not parse taken as NaN instead of 0:
\* NaN.toString()
diffCellNoDefault(row, mergedHeaders, col) ==
    LET leftValue  == parseFloat(OrStr(rowMapGet(mergedHeaders, row, "L__" \o col.left), <<"0">>))
        rightValue == parseFloat(OrStr(rowMapGet(mergedHeaders, row, "R__" \o col.right), <<"0">>))
    IN  IF leftValue.nan \/ rightValue.nan THEN <<"N", "a", "N">>
        ELSE NumberToString(leftValue.value - rightValue.value)

\* the diff cell read from the row after the key columns were folded: the
\* L__ and R__ headers of key columns are no longer there
diffCellAfterFolding(row, mergedHeaders, col) ==
    LET unifiedHeaders == unifyHeaders(mergedHeaders, compareKeys, {})
        unified    == unifyRow(row, mergedHeaders, unifiedHeaders,
                               processedKeys(mergedHeaders, compareKeys))
        leftValue  == OrZero(parseFloat(
                          OrStr(rowMapGet(unifiedHeaders, unified, "L__" \o col.left), <<"0">>)))
        rightValue == OrZero(parseFloat(
                          OrStr(rowMapGet(unifiedHeaders, unified, "R__" \o col.right), <<"0">>)))
    IN  NumberToString(leftValue.value - rightValue.value)

\* (parseFloat(rowMap.get(leftHeader) || "0") || 0)
\*   - (parseFloat(rowMap.get(rightHeader) || "0") || 0), as a string
diffCell(row, mergedHeaders, col) ==
    LET leftValue  == OrZero(parseFloat(
                          OrStr(rowMapGet(mergedHeaders, row, "L__" \o col.left), <<"0">>)))
        rightValue == OrZero(parseFloat(
                          OrStr(rowMapGet(mergedHeaders, row, "R__" \o col.right), <<"0">>)))
    IN  NumberToString(leftValue.value - rightValue.value)

\* the merged table built from the engine's (helper-free) output
mergedTable(result, keys, cols) ==
    LET mergedHeaders  == result.result.headers
        rows           == mergedRows(result)
        processed      == processedKeys(mergedHeaders, keys)
        unifiedHeaders == unifyHeaders(mergedHeaders, keys, {})
        diffs          == activeDiffs(cols)
    IN  [ headers |-> unifiedHeaders \o [d \in 1..Len(diffs) |-> diffs[d].label],
          rows    |-> [r \in 1..Len(rows) |->
                         unifyRow(rows[r], mergedHeaders, unifiedHeaders, processed)
                           \o [d \in 1..Len(diffs) |-> diffCell(rows[r], mergedHeaders, diffs[d])]] ]

\* a failure path that also drops the results of the earlier calls
alertAndReset(message) ==
    /\ lastAlert' = message
    /\ compareResult' = Null /\ mergedResult' = Null
    /\ selectedColumns' = <<>> /\ columnOrder' = <<>>
    /\ splitResult' = Null
    /\ selectedSplitColumns' = <<>> /\ splitColumnOrder' = <<>>
    /\ UNCHANGED <<themeVars, draggedColumn, fileVars, keyVars, engineCall, leftData, rightData, compareKeys,
                   compareColumns, compareOptions, sortByKeys, sortColumns, splitData,
                   splitKeys, splitSortColumns, zipFiles>>

\* alert(message) and return, as in the guard, after a failed module load
\* and in the catch block: no state is set
alertAndReturn(message) ==
    /\ lastAlert' = message
    /\ UNCHANGED stateVars

\* handleCompare's success path with the pre-sort done on the rows of
\* leftData and rightData themselves instead of on copies
compareSucceedsSortingInPlace(result, call) ==
    LET stripped == withoutCombinedKey(result, JoinNames(compareKeys))
        merged   == mergedTable(stripped, compareKeys, compareColumns)
        requiredColumns == FilterIn(merged.headers,
                                    { compareKeys[i] : i \in 1..Len(compareKeys) })
    IN  /\ mergedResult' = merged
        /\ selectedColumns' = requiredColumns
        /\ columnOrder' = requiredColumns
        /\ compareResult' = stripped
        /\ engineCall' = call
        /\ leftData' = IF sortByKeys
                       THEN sortByKeyColumns(leftData, compareKeys, compareOptions)
                       ELSE leftData
        /\ rightData' = IF sortByKeys
                        THEN sortByKeyColumns(rightData, compareKeys, compareOptions)
                        ELSE rightData
        /\ UNCHANGED <<themeVars, draggedColumn, fileVars, lastAlert, keyVars, splitVars, compareKeys,
                       compareColumns, compareOptions, sortByKeys, sortColumns>>

\* the state handleCompare sets once the engine has returned `out`
compareSucceeds(result, call) ==
    LET stripped == withoutCombinedKey(result, JoinNames(compareKeys))
        merged   == mergedTable(stripped, compareKeys, compareColumns)
        requiredColumns == FilterIn(merged.headers,
                                    { compareKeys[i] : i \in 1..Len(compareKeys) })
    IN  /\ mergedResult' = merged
        /\ selectedColumns' = requiredColumns
        /\ columnOrder' = requiredColumns
        /\ compareResult' = stripped
        /\ engineCall' = call
        /\ UNCHANGED <<themeVars, draggedColumn, fileVars, lastAlert, keyVars, splitVars, leftData, rightData, compareKeys,
                       compareColumns, compareOptions, sortByKeys, sortColumns>>

\* handleCompare without the test for an empty key selection
handleCompareWithoutKeyCheck ==
    \/ /\ leftData = Null \/ rightData = Null
       /\ alertAndReturn("select both files and key columns")
    \/ /\ leftData # Null /\ rightData # Null
       /\ \E message \in {"module not available", "compare failed"} :
             alertAndReturn(message)
    \/ /\ leftData # Null /\ rightData # Null
       /\ LET run == compare_files(compareInput)
          IN  compareSucceeds(run.output,
                              [op |-> "compare_files", input |-> compareInput,
                               rows |-> run.rows, leftKeys |-> run.leftKeys,
                               rightKeys |-> run.rightKeys,
                               keyColumns |-> compareKeys,
                               loaded |-> leftData # Null /\ rightData # Null])

handleCompare ==
    \/ \* no files or no key
       /\ leftData = Null \/ rightData = Null \/ Len(compareKeys) = 0
       /\ alertAndReturn("select both files and key columns")
    \/ \* loadWasmModule returns null; or compare_files, JSON.parse or the
       \* handling of a malformed output throws and the catch block runs
       /\ leftData # Null /\ rightData # Null /\ Len(compareKeys) > 0
       /\ \E message \in {"module not available", "compare failed"} :
             alertAndReturn(message)
    \/ /\ leftData # Null /\ rightData # Null /\ Len(compareKeys) > 0
       /\ LET run == compare_files(compareInput)
          IN  compareSucceeds(run.output,
                              [op |-> "compare_files", input |-> compareInput,
                               rows |-> run.rows, leftKeys |-> run.leftKeys,
                               rightKeys |-> run.rightKeys,
                               keyColumns |-> compareKeys,
                               loaded |-> leftData # Null /\ rightData # Null])

-----------------------------------------------------------------------------
(* The partition engine (WasmModule.split_file), modelled from the design   *)
(* document, sections 4.5 and 6, and handleSplit                           *)

\* the normalisation of the split case: trim, case kept
SplitOptions == [trim |-> TRUE, case_insensitive |-> FALSE]

\* grouping that starts a new partition whenever the key changes from one row
\* to the next, so that a key seen again later gets a second partition
GroupRowsConsecutive(keys) ==
    LET starts == { i \in 1..Len(keys) : i = 1 \/ keys[i] # keys[i - 1] }
        first  == Ascending(starts)
        run(i) == { j \in i..Len(keys) : \A x \in i..j : keys[x] = keys[i] }
    IN  [p \in 1..Len(first) |-> Ascending(run(first[p]))]

\* grouping that emits the partitions in the order in which their key is
\* last seen
GroupRowsLastSeen(keys) ==
    LET lasts == { i \in 1..Len(keys) : \A j \in (i + 1)..Len(keys) : keys[j] # keys[i] }
        last  == Ascending(lasts)
    IN  [p \in 1..Len(last) |->
            Ascending({ i \in 1..Len(keys) : keys[i] = keys[last[p]] })]

\* 4.5 steps 2-3: per partition the input rows (1-based positions) it holds,
\* partitions in the order their key is first seen, rows in input order
GroupRows(keys) ==
    LET firsts == { i \in 1..Len(keys) : \A j \in 1..(i - 1) : keys[j] # keys[i] }
        first  == Ascending(firsts)
    IN  [p \in 1..Len(first) |->
            Ascending({ i \in 1..Len(keys) : keys[i] = keys[first[p]] })]

split_file(input) ==
    LET keyIdx == EngineKeyIndex(input.headers, input.key)
        keys   == [i \in 1..Len(input.rows) |-> EngineKey(input.rows[i], keyIdx, SplitOptions)]
        groups == GroupRows(keys)
    IN  [ output |->
            [ parts |-> [p \in 1..Len(groups) |->
                           [ key_value |-> keys[groups[p][1]],
                             table |-> [ headers |-> input.headers,
                                         rows |-> Permute(input.rows, groups[p]) ] ]] ],
          rows |-> groups,
          keys |-> keys ]

\* the SplitInput built by handleSplit
splitInput ==
    LET combinedKeyName == JoinNames(splitKeys)
        withKey == withCombinedKey(splitData, splitKeys, SplitOptions, combinedKeyName)
    IN  [ headers |-> withKey.headers, rows |-> withKey.rows, key |-> combinedKeyName ]

\* the state handleSplit sets once the engine has returned `result`
splitSucceeds(result, call) ==
    LET keyIdx == IndexOf(splitInput.headers, JoinNames(splitKeys))
        parts  == [p \in 1..Len(result.parts) |->
                     [ key_value |-> result.parts[p].key_value,
                       table |->
                         [ headers |-> RemoveAt(result.parts[p].table.headers, keyIdx),
                           rows |-> [r \in 1..Len(result.parts[p].table.rows) |->
                                       RemoveAt(result.parts[p].table.rows[r], keyIdx)] ] ]]
        requiredColumns ==
            IF Len(parts) > 0
            THEN FilterIn(parts[1].table.headers, { splitKeys[i] : i \in 1..Len(splitKeys) })
            ELSE <<>>
    IN  /\ IF Len(parts) > 0
           THEN /\ selectedSplitColumns' = requiredColumns
                /\ splitColumnOrder' = requiredColumns
           ELSE UNCHANGED <<selectedSplitColumns, splitColumnOrder>>
        /\ splitResult' = [parts |-> parts]
        /\ engineCall' = call
        /\ UNCHANGED <<themeVars, draggedColumn, fileVars, lastAlert, keyVars, compareVars, splitData, splitKeys, splitSortColumns, zipFiles>>

handleSplit ==
    \/ \* no file or no key
       /\ splitData = Null \/ Len(splitKeys) = 0
       /\ alertAndReturn("select a file and key columns")
    \/ \* loadWasmModule returns null; or split_file, JSON.parse or the
       \* handling of a malformed output throws and the catch block runs
       /\ splitData # Null /\ Len(splitKeys) > 0
       /\ \E message \in {"module not available", "split failed"} :
             alertAndReturn(message)
    \/ /\ splitData # Null /\ Len(splitKeys) > 0
       /\ LET run == split_file(splitInput)
          IN  splitSucceeds(run.output,
                            [op |-> "split_file", input |-> splitInput,
                             rows |-> run.rows, keys |-> run.keys,
                             keyColumns |-> splitKeys,
                             loaded |-> splitData # Null])

-----------------------------------------------------------------------------
(* Harness for combineKeys: a row, an options value, and the keys built for  *)
(* the index lists tried so far.                                             *)

\* longest row handed to combineKeys in the harness
MaxKeyRowLen == 2

\* cell values: empty, white space only, differing in case or in surrounding
\* white space only, and containing the delimiter
KeyCells ==
    { <<>>, <<" ">>, <<"a">>, <<"A">>, <<"a", " ">>, <<" ", "a">>,
      <<"a", "|", "a">>, <<"b">> }

\* index lists as handleCompare/handleSplit compute them with indexOf:
\* -1 for a key that is no header, an index past the end of a short row
KeyIndexLists ==
    { <<0>>, <<1>>, <<0, 1>>, <<1, 0>>, <<-1, 0>>, <<0, MaxKeyRowLen>> }

OptionValues == [trim : BOOLEAN, case_insensitive : BOOLEAN]

KeyRows == UNION { [1..n -> KeyCells] : n \in 1..MaxKeyRowLen }

InitKey ==
    /\ keyRow \in KeyRows
    /\ keyOpts \in OptionValues
    /\ keyOut = {}
    /\ HomeInit

\* one call combineKeys(keyRow, keyIndices, keyOpts)
BuildKey(keyIndices) ==
    /\ \A p \in keyOut : p[1] # keyIndices
    /\ keyOut' = keyOut \cup { <<keyIndices, combineKeys(keyRow, keyIndices, keyOpts)>> }
    /\ UNCHANGED <<themeVars, draggedColumn, fileVars, lastAlert, keyRow, keyOpts, compareVars, splitVars, engineCall>>

NextKey == \E keyIndices \in KeyIndexLists : BuildKey(keyIndices)

SpecKey == InitKey /\ [][NextKey]_vars

\* the key built for an index list, once built
HasKey(keyIndices) == \E p \in keyOut : p[1] = keyIndices
KeyOf(keyIndices) == (CHOOSE p \in keyOut : p[1] = keyIndices)[2]

HasBar(s) == \E i \in 1..Len(s) : s[i] = "|"
WhiteSpaceOnly(s) == \A i \in 1..Len(s) : IsWhiteSpace(s[i])

-----------------------------------------------------------------------------
(* C4 *)

\* the cell the claim speaks of: the value at an index, "" when the index is
\* -1 or out of range
C4_Value(row, idx) == IF idx \in 0..(Len(row) - 1) THEN row[idx + 1] ELSE <<>>

\* the values in index order with one '|' between neighbours
RECURSIVE C4_Joined(_, _, _)
C4_Joined(row, keyIndices, n) ==
    IF n = 0 THEN <<>>
    ELSE IF n = 1 THEN C4_Value(row, keyIndices[1])
    ELSE C4_Joined(row, keyIndices, n - 1) \o <<"|">> \o C4_Value(row, keyIndices[n])

\* C4: every key built by combineKeys is the values at the given indices
\* (empty string for an index that is -1 or out of range) joined with '|' in
\* index order, then trimmed as one string if options.trim, then lower-cased
\* as one string if options.case_insensitive.
C4_KeyIsJoinedThenNormalised ==
    \A p \in keyOut :
        LET joined  == C4_Joined(keyRow, p[1], Len(p[1]))
            trimmed == IF keyOpts.trim THEN trim(joined) ELSE joined
            lowered == IF keyOpts.case_insensitive THEN toLowerCase(trimmed) ELSE trimmed
        IN  p[2] = lowered

\* a key built with trim from two cells, the first ending in white space: the
\* inner white space survives, which per-segment trimming would remove
C4_Witness ==
    /\ keyOpts.trim
    /\ Len(keyRow) = 2
    /\ keyRow[1] = <<"a", " ">>
    /\ HasKey(<<0, 1>>)
    /\ HasKey(<<-1, 0>>)
    /\ HasKey(<<0, MaxKeyRowLen>>)

-----------------------------------------------------------------------------
(* C5 *)

\* C5 as stated: the keys for [0,1] and [1,0] differ whenever row[0] # row[1].
C5_Original ==
    (/\ Len(keyRow) >= 2
     /\ HasKey(<<0, 1>>) /\ HasKey(<<1, 0>>)
     /\ keyRow[1] # keyRow[2])
        => KeyOf(<<0, 1>>) # KeyOf(<<1, 0>>)

\* the rows for which swapping the key columns is guaranteed to change the key
C5_Distinguishable ==
    /\ Len(keyRow) >= 2
    /\ keyRow[1] # keyRow[2]
    /\ ~HasBar(keyRow[1]) /\ ~HasBar(keyRow[2])
    /\ keyOpts.trim => ~(WhiteSpaceOnly(keyRow[1]) /\ WhiteSpaceOnly(keyRow[2]))
    /\ keyOpts.case_insensitive => toLowerCase(keyRow[1]) # toLowerCase(keyRow[2])

\* C5 (amended): the keys for [0,1] and [1,0] differ whenever row[0] # row[1],
\* neither cell contains '|', the two cells are not both white space only when
\* options.trim, and they do not differ in letter case only when
\* options.case_insensitive.
C5_PositionalSensitivity ==
    (C5_Distinguishable /\ HasKey(<<0, 1>>) /\ HasKey(<<1, 0>>))
        => KeyOf(<<0, 1>>) # KeyOf(<<1, 0>>)

\* both orders built, under trim and case folding, for cells that differ only
\* by surrounding white space
C5_Witness ==
    /\ C5_Distinguishable
    /\ keyOpts.trim /\ keyOpts.case_insensitive
    /\ keyRow = << <<"a">>, <<"a", " ">> >>
    /\ HasKey(<<0, 1>>) /\ HasKey(<<1, 0>>)

-----------------------------------------------------------------------------
(* Output column check boxes and the split download *)

\* onCheckedChange of the output column check box of one header of
\* mergedResult; the box of a key column is disabled
ToggleOutputColumn(header) ==
    /\ mergedResult # Null
    /\ Includes(mergedResult.headers, header)
    /\ ~Includes(compareKeys, header)
    /\ IF ~Includes(selectedColumns, header)
       THEN /\ selectedColumns' = Append(selectedColumns, header)
            /\ columnOrder' = Append(selectedColumns, header)
       ELSE /\ selectedColumns' = FilterIn(selectedColumns,
                                     { selectedColumns[i] : i \in 1..Len(selectedColumns) } \ {header})
            /\ columnOrder' = FilterIn(columnOrder,
                                     { columnOrder[i] : i \in 1..Len(columnOrder) } \ {header})
    /\ UNCHANGED <<themeVars, draggedColumn, fileVars, lastAlert, keyVars, splitVars, engineCall, leftData, rightData, compareKeys,
                   compareColumns, compareOptions, sortByKeys, compareResult,
                   mergedResult, sortColumns>>

\* one character of key_value.replace(/[<>:"/\\|?*]/g, "_")
SafeChar(c) == IF c \in {"<", ">", ":", "\"", "/", "\\", "|", "?", "*"} THEN "_" ELSE c

\* s.replace(/\s+/g, "_"): every maximal run of white space becomes one "_"
RECURSIVE ReplaceWhiteSpaceRuns(_)
ReplaceWhiteSpaceRuns(s) ==
    IF s = <<>> THEN <<>>
    ELSE IF IsWhiteSpace(Head(s)) THEN <<"_">> \o ReplaceWhiteSpaceRuns(TrimStart(s))
    ELSE <<Head(s)>> \o ReplaceWhiteSpaceRuns(Tail(s))

safeFileName(key_value) ==
    ReplaceWhiteSpaceRuns([i \in 1..Len(key_value) |-> SafeChar(key_value[i])])

\* zip.file(name, content): an entry of the same name is replaced
RECURSIVE ZipFile(_, _)
ZipFile(zip, entry) ==
    IF zip = <<>> THEN <<entry>>
    ELSE IF Head(zip).name = entry.name THEN <<entry>> \o Tail(zip)
    ELSE <<Head(zip)>> \o ZipFile(Tail(zip), entry)

\* the archive entry of one part: its file name, the rows written (selected
\* columns, user sort applied) and the positions those rows had before the sort
splitPartEntry(part) ==
    LET filteredData == filterColumns(part.table, selectedSplitColumns, splitColumnOrder)
        order        == userSortOrder(filteredData, splitSortColumns)
    IN  [ name    |-> safeFileName(part.key_value) \o <<".", "x", "l", "s", "x">>,
          headers |-> filteredData.headers,
          rows    |-> Permute(filteredData.rows, order),
          input   |-> filteredData.rows,
          order   |-> order ]

RECURSIVE ZipParts(_, _)
ZipParts(zip, parts) ==
    IF parts = <<>> THEN zip
    ELSE ZipParts(ZipFile(zip, splitPartEntry(Head(parts))), Tail(parts))

handleDownloadSplit ==
    /\ splitResult # Null
    /\ zipFiles' = ZipParts(<<>>, splitResult.parts)
    /\ UNCHANGED <<themeVars, draggedColumn, fileVars, lastAlert, keyVars, compareVars, engineCall, splitData, splitKeys, splitResult,
                   selectedSplitColumns, splitColumnOrder, splitSortColumns>>

-----------------------------------------------------------------------------
(* Harness for the user sort: a merged result and a one-part split result    *)
(* over the same table, with every column of the part selected.             *)

\* most rows in a table of the sort harness
MaxSortRows == 3

SortHeaders == <<"k", "v", "w">>

\* rows of one key; v holds numbers whose numeric and string order differ and
\* texts, w tells rows with the same v apart
SortRowPool ==
    { << <<"p">>, <<"2">>, <<"x">> >>,
      << <<"p">>, <<"1", "0">>, <<"x">> >>,
      << <<"p">>, <<"1", "0">>, <<"y">> >>,
      << <<"p">>, <<"a">>, <<"x">> >>,
      << <<"p">>, <<"b">>, <<"y">> >> }

SortTables ==
    { [headers |-> SortHeaders, rows |-> rows] :
        rows \in UNION { [1..n -> SortRowPool] : n \in 0..MaxSortRows } }

SortSpecLists ==
    { <<>>,
      << [column |-> "v", direction |-> "asc"] >>,
      << [column |-> "v", direction |-> "desc"] >>,
      << [column |-> "w", direction |-> "desc"] >>,
      << [column |-> "v", direction |-> "asc"], [column |-> "w", direction |-> "desc"] >>,
      << [column |-> "w", direction |-> "asc"], [column |-> "v", direction |-> "desc"] >> }

InitSort ==
    /\ keyRow = <<>> /\ keyOpts = [trim |-> TRUE, case_insensitive |-> FALSE] /\ keyOut = {}
    /\ leftData = Null /\ rightData = Null
    /\ compareKeys = <<"k">> /\ compareColumns = <<>>
    /\ compareOptions = [trim |-> TRUE, case_insensitive |-> FALSE]
    /\ sortByKeys = TRUE
    /\ compareResult = Null
    /\ mergedResult \in SortTables
    /\ selectedColumns = <<"k">> /\ columnOrder = <<"k">>
    /\ sortColumns \in SortSpecLists
    /\ splitData = Null /\ splitKeys = <<"k">>
    /\ splitResult = [parts |-> << [key_value |-> <<"p">>, table |-> mergedResult] >>]
    /\ selectedSplitColumns = SortHeaders /\ splitColumnOrder = SortHeaders
    /\ splitSortColumns = sortColumns
    /\ zipFiles = <<>>
    /\ engineCall = Null
    /\ lastAlert = ""
    /\ FilesAsLoaded
    /\ ThemeMounted
    /\ draggedColumn = Null

NextSort ==
    \/ \E header \in { SortHeaders[i] : i \in 1..Len(SortHeaders) } : ToggleOutputColumn(header)
    \/ handleDownloadSplit

SpecSort == InitSort /\ [][NextSort]_vars

-----------------------------------------------------------------------------
(* C6 *)

\* the sort specs whose column exists in the table
ActiveSortColumns(headers, sortCols) ==
    { sortCols[i].column : i \in { j \in 1..Len(sortCols) : Includes(headers, sortCols[j].column) } }

\* rows a and b have equal values in every active sort column
EqualInSortColumns(a, b, headers, sortCols) ==
    \A c \in ActiveSortColumns(headers, sortCols) :
        a[IndexOf(headers, c) + 1] = b[IndexOf(headers, c) + 1]

\* the position in the output of the row that was at input position i
OutputPosition(order, i) == CHOOSE k \in 1..Len(order) : order[k] = i

\* in the output order of `rows`, rows with equal values in all active sort
\* columns keep their input order
StableOrder(rows, headers, sortCols, order) ==
    /\ Len(order) = Len(rows)
    /\ { order[k] : k \in 1..Len(order) } = 1..Len(rows)
    /\ \A i, j \in 1..Len(rows) :
          (i < j /\ EqualInSortColumns(rows[i], rows[j], headers, sortCols))
              => OutputPosition(order, i) < OutputPosition(order, j)

\* C6: the user sort of the merged result and of each split partition keeps
\* the input order of any two rows that have equal values in all active sort
\* columns.
C6_SortStability ==
    /\ mergedResult # Null =>
          StableOrder(filteredMergedResult.rows, filteredMergedResult.headers,
                      sortColumns, sortedMergedOrder)
    /\ \A e \in 1..Len(zipFiles) :
          StableOrder(zipFiles[e].input, zipFiles[e].headers, splitSortColumns,
                      zipFiles[e].order)

\* a sort by v of three rows, the first and last of which have the same v and
\* differ in w, once in the merged view and once in the downloaded part
C6_Witness ==
    /\ mergedResult # Null
    /\ selectedColumns = <<"k", "v", "w">>
    /\ sortColumns = << [column |-> "v", direction |-> "asc"] >>
    /\ mergedResult.rows = << << <<"p">>, <<"1", "0">>, <<"y">> >>,
                              << <<"p">>, <<"2">>, <<"x">> >>,
                              << <<"p">>, <<"1", "0">>, <<"x">> >> >>
    /\ sortedMergedOrder = <<2, 1, 3>>
    /\ Len(zipFiles) = 1
    /\ zipFiles[1].order = <<2, 1, 3>>

-----------------------------------------------------------------------------
(* C7 *)

\* the first sort spec whose column exists in the table decides the order of
\* rows that differ in it
FirstActive(headers, sortCols) ==
    sortCols[CHOOSE i \in 1..Len(sortCols) :
                /\ Includes(headers, sortCols[i].column)
                /\ \A j \in 1..(i - 1) : ~Includes(headers, sortCols[j].column)]

\* rows whose cells in column idx are all non-numeric texts are in the string
\* order of that column, in the requested direction
InStringOrder(rows, idx, direction) ==
    (\A r \in 1..Len(rows) : parseFloat(rows[r][idx + 1]).nan)
        => \A p, q \in 1..Len(rows) :
              p < q => IF direction = "asc"
                       THEN localeCompare(rows[p][idx + 1], rows[q][idx + 1]) <= 0
                       ELSE localeCompare(rows[p][idx + 1], rows[q][idx + 1]) >= 0

\* C7: the user sort compares two cells numerically only if both parse as
\* numbers and as strings otherwise, so rows whose cells in the deciding sort
\* column are different non-numeric texts come out in string order, ascending
\* or descending as requested.
C7_TextCellsInStringOrder ==
    /\ (mergedResult # Null
        /\ ActiveSortColumns(filteredMergedResult.headers, sortColumns) # {})
          => LET first == FirstActive(filteredMergedResult.headers, sortColumns)
             IN  InStringOrder(sortedMergedResult.rows,
                               IndexOf(sortedMergedResult.headers, first.column),
                               first.direction)
    /\ \A e \in 1..Len(zipFiles) :
          ActiveSortColumns(zipFiles[e].headers, splitSortColumns) # {}
            => LET first == FirstActive(zipFiles[e].headers, splitSortColumns)
               IN  InStringOrder(zipFiles[e].rows,
                                 IndexOf(zipFiles[e].headers, first.column),
                                 first.direction)

-----------------------------------------------------------------------------
(* Harness for handleCompare: two loaded tables, a key selection, options    *)
(* and diff specs as the user can set them, then the compare button.         *)

\* most rows in a left table and in a right table of the compare harness
MaxLeftRows == 2
MaxRightRows == 2

CompareHeaders == <<"id", "amt">>

\* keys that agree only after trim or case folding, a second key, and
\* amounts that parse and that do not
LeftRowPool ==
    { << <<"A">>, <<"1", "0">> >>,
      << <<"B">>, <<"5">> >>,
      << <<"a", " ">>, <<"x">> >> }

RightRowPool ==
    { << <<"A">>, <<"2", "0">> >>,
      << <<"a">>, <<>> >> }

LeftTables ==
    { [headers |-> CompareHeaders, rows |-> rows] :
        rows \in UNION { [1..n -> LeftRowPool] : n \in 0..MaxLeftRows } }

RightTables ==
    { [headers |-> CompareHeaders, rows |-> rows] :
        rows \in UNION { [1..n -> RightRowPool] : n \in 0..MaxRightRows } }

CompareKeyChoices == { <<>>, <<"id">>, <<"id", "amt">> }

\* the label a new diff spec gets from the add button (the code's default is
\* the two-character Japanese word for "difference")
DefaultDiffLabel == "sagaku"

DiffSpecChoices ==
    { <<>>,
      << [left |-> "amt", right |-> "amt", label |-> "diff"] >>,
      << [left |-> "", right |-> "amt", label |-> DefaultDiffLabel] >>,
      << [left |-> "amt", right |-> "amt", label |-> DefaultDiffLabel],
         [left |-> "amt", right |-> "amt", label |-> DefaultDiffLabel] >> }

InitCompare ==
    /\ keyRow = <<>> /\ keyOpts = [trim |-> TRUE, case_insensitive |-> FALSE] /\ keyOut = {}
    /\ leftData \in LeftTables
    /\ rightData \in RightTables
    /\ compareKeys \in CompareKeyChoices
    /\ compareColumns \in DiffSpecChoices
    /\ compareOptions \in OptionValues
    /\ sortByKeys \in BOOLEAN
    /\ compareResult = Null /\ mergedResult = Null
    /\ selectedColumns = <<>> /\ columnOrder = <<>> /\ sortColumns = <<>>
    /\ splitData = Null /\ splitKeys = <<>> /\ splitResult = Null
    /\ selectedSplitColumns = <<>> /\ splitColumnOrder = <<>>
    /\ splitSortColumns = <<>> /\ zipFiles = <<>>
    /\ engineCall = Null
    /\ lastAlert = ""
    /\ FilesAsLoaded
    /\ ThemeMounted
    /\ draggedColumn = Null

NextCompare == handleCompare

SpecCompare == InitCompare /\ [][NextCompare]_vars

-----------------------------------------------------------------------------
(* C1 *)

Range(f) == { f[i] : i \in 1..Len(f) }

\* C1: reconcile places every left row and every right row in exactly one of
\* the four buckets, so 2*|matched| + |left_only| + |right_only| + |duplicates|
\* = |left.rows| + |right.rows|, and the merged table built by handleCompare
\* has |matched| + |left_only| + |right_only| + |duplicates| rows.
C1_ReconciliationCompleteness ==
    compareResult # Null =>
        LET in == engineCall.input
            b  == engineCall.rows
            nl == Len(in.left_rows)
            nr == Len(in.right_rows)
            leftIn(i)  == << i \in { b.matched[k][1] : k \in 1..Len(b.matched) },
                             i \in Range(b.left_only),
                             i \in Range(b.dup_left) >>
            rightIn(j) == << j \in { b.matched[k][2] : k \in 1..Len(b.matched) },
                             j \in Range(b.right_only),
                             j \in Range(b.dup_right) >>
            once(t) == Cardinality({ x \in 1..3 : t[x] }) = 1
        IN  /\ \A i \in 1..nl : once(leftIn(i))
            /\ \A j \in 1..nr : once(rightIn(j))
            /\ Len(b.matched) = Cardinality({ b.matched[k][1] : k \in 1..Len(b.matched) })
            /\ Len(b.matched) = Cardinality({ b.matched[k][2] : k \in 1..Len(b.matched) })
            /\ Len(b.left_only) = Cardinality(Range(b.left_only))
            /\ Len(b.right_only) = Cardinality(Range(b.right_only))
            /\ Len(b.dup_left) = Cardinality(Range(b.dup_left))
            /\ Len(b.dup_right) = Cardinality(Range(b.dup_right))
            /\ Len(compareResult.result.rows) = Len(b.matched)
            /\ Len(compareResult.left_only.rows) = Len(b.left_only)
            /\ Len(compareResult.right_only.rows) = Len(b.right_only)
            /\ Len(compareResult.duplicates.rows) = Len(b.dup_left) + Len(b.dup_right)
            /\ 2 * Len(compareResult.result.rows) + Len(compareResult.left_only.rows)
                 + Len(compareResult.right_only.rows) + Len(compareResult.duplicates.rows)
                 = nl + nr
            /\ Len(mergedResult.rows)
                 = Len(compareResult.result.rows) + Len(compareResult.left_only.rows)
                   + Len(compareResult.right_only.rows) + Len(compareResult.duplicates.rows)

\* two left rows of one key, a right row of that key and a right row of
\* another: three rows in duplicates, one in right_only, four merged rows
C1_Witness ==
    /\ compareResult # Null
    /\ Len(engineCall.input.left_rows) = 2
    /\ Len(engineCall.input.right_rows) = 2
    /\ Len(compareResult.duplicates.rows) = 3
    /\ Len(compareResult.right_only.rows) = 1
    /\ Len(mergedResult.rows) = 4

-----------------------------------------------------------------------------
(* C2 *)

\* C2: a key present on both sides is matched if and only if it maps to
\* exactly one left row and exactly one right row; if it maps to more than one
\* row on either side, every row of both sides with that key is in duplicates
\* and none of them is in matched, left_only or right_only.
C2_AmbiguousKeyRule ==
    compareResult # Null =>
        LET b  == engineCall.rows
            lk == engineCall.leftKeys
            rk == engineCall.rightKeys
            onL(k) == { i \in 1..Len(lk) : lk[i] = k }
            onR(k) == { j \in 1..Len(rk) : rk[j] = k }
            matchedPairs == { b.matched[k] : k \in 1..Len(b.matched) }
        IN  \A k \in Range(lk) \cap Range(rk) :
              /\ (Cardinality(onL(k)) = 1 /\ Cardinality(onR(k)) = 1)
                    <=> (\E i \in onL(k), j \in onR(k) : <<i, j>> \in matchedPairs)
              /\ (Cardinality(onL(k)) > 1 \/ Cardinality(onR(k)) > 1)
                    => /\ onL(k) \subseteq Range(b.dup_left)
                       /\ onR(k) \subseteq Range(b.dup_right)
                       /\ \A p \in matchedPairs : p[1] \notin onL(k) /\ p[2] \notin onR(k)
                       /\ onL(k) \cap Range(b.left_only) = {}
                       /\ onR(k) \cap Range(b.right_only) = {}
              /\ \A p \in matchedPairs : lk[p[1]] = rk[p[2]]
              /\ Len(compareResult.duplicates.rows) = Len(b.dup_left) + Len(b.dup_right)
              /\ Len(compareResult.result.rows) = Len(b.matched)

\* two left rows and one right row with the same key: three rows in
\* duplicates, nothing matched
C2_Witness ==
    /\ compareResult # Null
    /\ Len(engineCall.leftKeys) = 2
    /\ engineCall.leftKeys[1] = engineCall.leftKeys[2]
    /\ engineCall.rightKeys = << engineCall.leftKeys[1] >>
    /\ Len(compareResult.duplicates.rows) = 3
    /\ Len(compareResult.result.rows) = 0
    /\ Len(compareResult.left_only.rows) = 0
    /\ Len(compareResult.right_only.rows) = 0

-----------------------------------------------------------------------------
(* Harness for the column unifier: the tables of the design document's      *)
(* concrete scenario, and the compare button answered either by the engine  *)
(* or by an arbitrary CompareOutput.                                        *)

\* most rows in an arbitrary engine output
MaxAnyRows == 2

ScenarioLeft ==
    [ headers |-> CompareHeaders,
      rows    |-> << << <<"A">>, <<"1", "0">> >>, << <<"B">>, <<"5">> >> >> ]

ScenarioRight ==
    [ headers |-> CompareHeaders,
      rows    |-> << << <<"A">>, <<"2", "0">> >> >> ]

\* header lists of an engine output: with the helper column of a single key,
\* with R__ before L__ and no helper column, with the helper of two keys
AnyHeaders ==
    { <<"id", "L__amt", "L__id", "R__amt", "R__id">>,
      <<"R__id", "L__amt", "R__amt", "L__id">>,
      <<"id|amt", "L__id", "L__amt", "R__id", "R__amt">> }

\* bucket rows shorter than, as long as and longer than those header lists
AnyRowPool ==
    { << <<"A">> >>,
      << <<"A">>, <<"7">>, <<"A">>, <<"x">>, <<>> >>,
      << <<"B">>, <<"-", "3">>, <<>>, <<"4">>, <<"B">>, <<"9">> >> }

AnyRows == UNION { [1..n -> AnyRowPool] : n \in 0..MaxAnyRows }

\* the first row in the matched bucket, the others in left_only
AnyEngineOutputs ==
    { [ result     |-> [headers |-> h, rows |-> IF m = <<>> THEN <<>> ELSE <<Head(m)>>],
        left_only  |-> [headers |-> h, rows |-> IF m = <<>> THEN <<>> ELSE Tail(m)],
        right_only |-> [headers |-> h, rows |-> <<>>],
        duplicates |-> [headers |-> h, rows |-> <<>>],
        log        |-> <<>> ] : h \in AnyHeaders, m \in AnyRows }

\* handleCompare when compare_files returns `result`
handleCompareAnyEngine ==
    /\ leftData # Null /\ rightData # Null /\ Len(compareKeys) > 0
    /\ \E result \in AnyEngineOutputs :
          compareSucceeds(result,
                          [op |-> "compare_files", input |-> compareInput,
                           rows |-> Null, leftKeys |-> <<>>, rightKeys |-> <<>>,
                           keyColumns |-> compareKeys,
                           loaded |-> leftData # Null /\ rightData # Null])

UnifyDiffChoices ==
    { << [left |-> "amt", right |-> "amt", label |-> "diff"] >>,
      << [left |-> "", right |-> "amt", label |-> DefaultDiffLabel],
         [left |-> "amt", right |-> "amt", label |-> DefaultDiffLabel] >>,
      << [left |-> "amt", right |-> "id", label |-> "diff"],
         [left |-> "id", right |-> "amt", label |-> "L__amt"] >> }

InitUnify ==
    /\ keyRow = <<>> /\ keyOpts = [trim |-> TRUE, case_insensitive |-> FALSE] /\ keyOut = {}
    /\ leftData = ScenarioLeft
    /\ rightData = ScenarioRight
    /\ compareKeys \in CompareKeyChoices
    /\ compareColumns \in UnifyDiffChoices
    /\ compareOptions = [trim |-> TRUE, case_insensitive |-> FALSE]
    /\ sortByKeys = TRUE
    /\ compareResult = Null /\ mergedResult = Null
    /\ selectedColumns = <<>> /\ columnOrder = <<>> /\ sortColumns = <<>>
    /\ splitData = Null /\ splitKeys = <<>> /\ splitResult = Null
    /\ selectedSplitColumns = <<>> /\ splitColumnOrder = <<>>
    /\ splitSortColumns = <<>> /\ zipFiles = <<>>
    /\ engineCall = Null
    /\ lastAlert = ""
    /\ FilesAsLoaded
    /\ ThemeMounted
    /\ draggedColumn = Null

NextUnify ==
    \/ handleCompare
    \/ handleCompareAnyEngine
    \/ ToggleOutputColumn("diff")

SpecUnify == InitUnify /\ [][NextUnify]_vars

-----------------------------------------------------------------------------
(* C8 *)

NoDuplicates(arr) == \A i, j \in 1..Len(arr) : arr[i] = arr[j] => i = j

\* C8: the header list of the merged table produced by handleCompare contains
\* no name twice, whatever diff specs the user entered.
C8_UniqueOutputHeaders ==
    mergedResult # Null => NoDuplicates(mergedResult.headers)

-----------------------------------------------------------------------------
(* C9 *)

Rectangular(table) ==
    \A r \in 1..Len(table.rows) : Len(table.rows[r]) = Len(table.headers)

\* C9: every row of the merged table produced by handleCompare has exactly as
\* many cells as the merged table has headers, and so has every row of the
\* table filterColumns returns for the current column selection.
C9_RectangularOutput ==
    mergedResult # Null =>
        /\ Rectangular(mergedResult)
        /\ Rectangular(filterColumns(mergedResult, selectedColumns, columnOrder))

\* a merged table built from a bucket row shorter and a bucket row longer than
\* the engine's headers, with a diff column, and a non-key column selected
C9_Witness ==
    /\ compareResult # Null
    /\ Len(compareResult.result.rows) = 1
    /\ Len(compareResult.result.rows[1]) < Len(compareResult.result.headers)
    /\ Len(compareResult.left_only.rows) = 1
    /\ Len(compareResult.left_only.rows[1]) > Len(compareResult.left_only.headers)
    /\ Len(mergedResult.rows) = 2
    /\ Includes(mergedResult.headers, "diff")
    /\ Len(selectedColumns) = 3
    /\ Includes(selectedColumns, "diff")

-----------------------------------------------------------------------------
(* C10 *)

\* num of a cell: 0 for an empty or unparsable cell
C10_Num(cell) == IF parseFloat(cell).nan THEN 0 ELSE parseFloat(cell).value

\* the value of the column `name` in a bucket row, "" if the row has none
C10_ValueOf(headers, row, name) ==
    IF Includes(headers, name) /\ IndexOf(headers, name) < Len(row)
    THEN row[IndexOf(headers, name) + 1] ELSE <<>>

\* C10: for every output row and every diff spec with left_column,
\* right_column and label all non-empty, the diff cell is the number
\* num(value of L__left_column in that row) - num(value of R__right_column in
\* that row), num of a missing, empty or unparsable cell being 0.
C10_DiffValue ==
    mergedResult # Null =>
        LET headers == compareResult.result.headers
            rows    == compareResult.result.rows \o compareResult.left_only.rows
                         \o compareResult.right_only.rows \o compareResult.duplicates.rows
            diffs   == { i \in 1..Len(compareColumns) :
                            /\ compareColumns[i].left # ""
                            /\ compareColumns[i].right # ""
                            /\ compareColumns[i].label # "" }
            nth(i)  == Cardinality({ j \in diffs : j <= i })
            first   == Len(mergedResult.headers) - Cardinality(diffs)
        IN  /\ Len(rows) = Len(mergedResult.rows)
            /\ \A r \in 1..Len(rows) : \A i \in diffs :
                  LET cell == mergedResult.rows[r][first + nth(i)]
                      want == C10_Num(C10_ValueOf(headers, rows[r], "L__" \o compareColumns[i].left))
                              - C10_Num(C10_ValueOf(headers, rows[r], "R__" \o compareColumns[i].right))
                  IN  /\ mergedResult.headers[first + nth(i)] = compareColumns[i].label
                      /\ cell = NumberToString(want)

\* the scenario of the design document: key id, diff of amt; the matched row
\* of A has diff 10 - 20 = -10 and the left_only row of B has its left value 5
C10_Witness ==
    /\ compareResult # Null
    /\ compareKeys = <<"id">>
    /\ compareColumns = << [left |-> "amt", right |-> "amt", label |-> "diff"] >>
    /\ mergedResult.headers = <<"L__amt", "id", "R__amt", "diff">>
    /\ mergedResult.rows = << << <<"1", "0">>, <<"A">>, <<"2", "0">>, <<"-", "1", "0">> >>,
                              << <<"5">>, <<"B">>, <<>>, <<"5">> >> >>

-----------------------------------------------------------------------------
(* Harness for handleSplit: a loaded table and a key selection, then the    *)
(* split button and the download button.                                    *)

\* most rows in a table of the split harness
MaxSplitRows == 3

\* the rows of the design document's split scenario, and rows whose key
\* differs from another's by white space only, in one column or in two
SplitRowPool ==
    { << <<"a">>, <<"1">> >>,
      << <<"b">>, <<"2">> >>,
      << <<"a">>, <<"3">> >>,
      << <<"a", " ">>, <<"1">> >>,
      << <<" ", "a">>, <<"1", " ">> >> }

SplitTables ==
    { [headers |-> CompareHeaders, rows |-> rows] :
        rows \in UNION { [1..n -> SplitRowPool] : n \in 0..MaxSplitRows } }

SplitKeyChoices == { <<>>, <<"id">>, <<"id", "amt">>, <<"amt", "id">> }

InitSplit ==
    /\ keyRow = <<>> /\ keyOpts = [trim |-> TRUE, case_insensitive |-> FALSE] /\ keyOut = {}
    /\ leftData = Null /\ rightData = Null
    /\ compareKeys = <<>> /\ compareColumns = <<>>
    /\ compareOptions = [trim |-> TRUE, case_insensitive |-> FALSE]
    /\ sortByKeys = TRUE
    /\ compareResult = Null /\ mergedResult = Null
    /\ selectedColumns = <<>> /\ columnOrder = <<>> /\ sortColumns = <<>>
    /\ splitData \in SplitTables
    /\ splitKeys \in SplitKeyChoices
    /\ splitResult = Null
    /\ selectedSplitColumns = <<>> /\ splitColumnOrder = <<>>
    /\ splitSortColumns = <<>> /\ zipFiles = <<>>
    /\ engineCall = Null
    /\ lastAlert = ""
    /\ FilesAsLoaded
    /\ ThemeMounted
    /\ draggedColumn = Null

NextSplit ==
    \/ handleSplit
    \/ handleDownloadSplit

SpecSplit == InitSplit /\ [][NextSplit]_vars

-----------------------------------------------------------------------------
(* C3 *)

\* the composite key of a row of the source table under the split policy:
\* its key cells joined with '|', trimmed as one string
C3_KeyOf(row, headers, keys) ==
    trim(C4_Joined(row, [i \in 1..Len(keys) |-> IndexOf(headers, keys[i])], Len(keys)))

\* C3: the partitions returned for a table are pairwise disjoint in rows,
\* together hold exactly the table's rows, each holds only rows of one
\* composite key, which is its key_value, and no two share a key_value.
C3_PartitionLaw ==
    splitResult # Null =>
        LET groups == engineCall.rows
            parts  == splitResult.parts
            n      == Len(splitData.rows)
        IN  /\ Len(parts) = Len(groups)
            /\ Len(engineCall.input.rows) = n
            /\ \A p, q \in 1..Len(groups) :
                  p # q => /\ Range(groups[p]) \cap Range(groups[q]) = {}
                           /\ parts[p].key_value # parts[q].key_value
            /\ UNION { Range(groups[p]) : p \in 1..Len(groups) } = 1..n
            /\ \A p \in 1..Len(groups) :
                  /\ Len(groups[p]) = Cardinality(Range(groups[p]))
                  /\ Len(parts[p].table.rows) = Len(groups[p])
                  /\ \A k \in 1..Len(groups[p]) :
                        C3_KeyOf(splitData.rows[groups[p][k]], splitData.headers, splitKeys)
                            = parts[p].key_value
            /\ LET total[p \in 0..Len(parts)] ==
                       IF p = 0 THEN 0 ELSE total[p - 1] + Len(parts[p].table.rows)
               IN  total[Len(parts)] = n

\* the split scenario of the design document with a two-column key: rows
\* a,b,a give a partition of two rows and one of one row
C3_Witness ==
    /\ splitResult # Null
    /\ Len(splitKeys) = 2
    /\ Len(splitData.rows) = 3
    /\ Len(splitResult.parts) = 2
    /\ Len(splitResult.parts[1].table.rows) = 2
    /\ splitResult.parts[1].key_value = <<"a", "|", "1">>
    /\ splitResult.parts[2].key_value = <<"b", "|", "2">>

-----------------------------------------------------------------------------
(* C11 *)

\* C11: appending the helper composite-key column and stripping it from the
\* engine's output leaves each split partition with exactly the source
\* table's headers in the source order and each of its rows with the cells of
\* the source row it came from, also when a single key column is selected and
\* the helper column bears that column's name.
C11_HelperKeyRoundTrip ==
    splitResult # Null =>
        \A p \in 1..Len(splitResult.parts) :
            /\ splitResult.parts[p].table.headers = splitData.headers
            /\ \A k \in 1..Len(splitResult.parts[p].table.rows) :
                  splitResult.parts[p].table.rows[k]
                      = splitData.rows[engineCall.rows[p][k]]

-----------------------------------------------------------------------------
(* File inputs, clear buttons and key selection of the two tabs            *)

\* filter(k => k !== x)
Without(arr, x) == FilterIn(arr, { arr[i] : i \in 1..Len(arr) } \ {x})

\* [a[i], a[j]] = [a[j], a[i]] on 0-based indices
SwapAt(arr, i, j) ==
    [k \in 1..Len(arr) |-> IF k = i + 1 THEN arr[j + 1]
                           ELSE IF k = j + 1 THEN arr[i + 1] ELSE arr[k]]

\* a handler waiting at `await readExcelFile(file)`: the input it serves, the
\* file, and whether the key selection was empty in the render in which the
\* file was chosen (the handler's closure holds compareKeys or splitKeys of
\* that render)
PendingRead(input, file, wasEmpty) ==
    [input |-> input, file |-> file, wasEmpty |-> wasEmpty]

\* handleLeftFileChange up to `await readExcelFile(file)`
handleLeftFileChange(file) ==
    /\ leftFile' = file
    /\ leftData' = Null
    /\ reads' = Append(reads, PendingRead("left", file, Len(compareKeys) = 0))
    /\ UNCHANGED <<themeVars, draggedColumn, lastAlert, keyVars, splitVars, engineCall, rightFile, splitFile,
                   rightData, compareKeys, compareColumns, compareOptions, sortByKeys,
                   compareResult, mergedResult, selectedColumns, columnOrder, sortColumns>>

\* handleLeftFileChange from the point where readExcelFile has settled for
\* the waiting handler at position idx (0-based) of reads
handleLeftFileRead(idx) ==
    /\ idx < Len(reads)
    /\ reads[idx + 1].input = "left"
    /\ LET read == reads[idx + 1]
           data == read.file.data
       IN  IF data # Null
           THEN /\ leftData' = data
                /\ compareKeys' = IF read.wasEmpty /\ Len(data.headers) > 0
                                  THEN <<data.headers[1]>> ELSE compareKeys
                /\ UNCHANGED <<lastAlert, leftFile>>
           ELSE /\ lastAlert' = "reading the file failed"
                /\ leftFile' = Null
                /\ leftData' = Null
                /\ UNCHANGED compareKeys
    /\ reads' = RemoveAt(reads, idx)
    /\ UNCHANGED <<themeVars, draggedColumn, keyVars, splitVars, engineCall, rightFile, splitFile, rightData,
                   compareColumns, compareOptions, sortByKeys, compareResult, mergedResult,
                   selectedColumns, columnOrder, sortColumns>>

\* handleRightFileChange up to `await readExcelFile(file)`
handleRightFileChange(file) ==
    /\ rightFile' = file
    /\ rightData' = Null
    /\ reads' = Append(reads, PendingRead("right", file, FALSE))
    /\ UNCHANGED <<themeVars, draggedColumn, lastAlert, keyVars, splitVars, engineCall, leftFile, splitFile,
                   leftData, compareKeys, compareColumns, compareOptions, sortByKeys,
                   compareResult, mergedResult, selectedColumns, columnOrder, sortColumns>>

\* handleRightFileChange from the point where readExcelFile has settled
handleRightFileRead(idx) ==
    /\ idx < Len(reads)
    /\ reads[idx + 1].input = "right"
    /\ LET data == reads[idx + 1].file.data
       IN  IF data # Null
           THEN /\ rightData' = data
                /\ UNCHANGED <<lastAlert, rightFile>>
           ELSE /\ lastAlert' = "reading the file failed"
                /\ rightFile' = Null
                /\ rightData' = Null
    /\ reads' = RemoveAt(reads, idx)
    /\ UNCHANGED <<themeVars, draggedColumn, keyVars, splitVars, engineCall, leftFile, splitFile, leftData,
                   compareKeys, compareColumns, compareOptions, sortByKeys, compareResult,
                   mergedResult, selectedColumns, columnOrder, sortColumns>>

\* handleSplitFileChange up to `await readExcelFile(file)`: splitData is
\* left as it is
handleSplitFileChange(file) ==
    /\ splitFile' = file
    /\ reads' = Append(reads, PendingRead("split", file, Len(splitKeys) = 0))
    /\ UNCHANGED <<themeVars, draggedColumn, lastAlert, keyVars, compareVars, splitVars, engineCall, leftFile, rightFile>>

\* handleSplitFileChange from the point where readExcelFile has settled
handleSplitFileRead(idx) ==
    /\ idx < Len(reads)
    /\ reads[idx + 1].input = "split"
    /\ LET read == reads[idx + 1]
           data == read.file.data
       IN  IF data # Null
           THEN /\ splitData' = data
                /\ splitKeys' = IF read.wasEmpty /\ Len(data.headers) > 0
                                THEN <<data.headers[1]>> ELSE splitKeys
                /\ UNCHANGED <<lastAlert, splitFile>>
           ELSE /\ lastAlert' = "reading the file failed"
                /\ splitFile' = Null
                /\ splitData' = Null
                /\ UNCHANGED splitKeys
    /\ reads' = RemoveAt(reads, idx)
    /\ UNCHANGED <<themeVars, draggedColumn, keyVars, compareVars, engineCall, leftFile, rightFile, splitResult,
                   selectedSplitColumns, splitColumnOrder, splitSortColumns, zipFiles>>

\* the X button next to the left file's name, shown while leftFile is set
ClearLeftFile ==
    /\ leftFile # Null
    /\ leftFile' = Null
    /\ leftData' = Null
    /\ UNCHANGED <<themeVars, draggedColumn, lastAlert, keyVars, splitVars, engineCall, rightFile, splitFile, reads,
                   rightData, compareKeys, compareColumns, compareOptions, sortByKeys,
                   compareResult, mergedResult, selectedColumns, columnOrder, sortColumns>>

\* the X button next to the right file's name, shown while rightFile is set
ClearRightFile ==
    /\ rightFile # Null
    /\ rightFile' = Null
    /\ rightData' = Null
    /\ UNCHANGED <<themeVars, draggedColumn, lastAlert, keyVars, splitVars, engineCall, leftFile, splitFile, reads,
                   leftData, compareKeys, compareColumns, compareOptions, sortByKeys,
                   compareResult, mergedResult, selectedColumns, columnOrder, sortColumns>>

\* the X button next to the split file's name, shown while splitFile is set
ClearSplitFile ==
    /\ splitFile # Null
    /\ splitFile' = Null
    /\ splitData' = Null
    /\ splitKeys' = <<>>
    /\ splitResult' = Null
    /\ UNCHANGED <<themeVars, draggedColumn, lastAlert, keyVars, compareVars, engineCall, leftFile, rightFile, reads,
                   selectedSplitColumns, splitColumnOrder, splitSortColumns, zipFiles>>

setCompareKeys(keys) ==
    /\ compareKeys' = keys
    /\ UNCHANGED <<themeVars, draggedColumn, fileVars, lastAlert, keyVars, splitVars, engineCall, leftData, rightData, compareColumns,
                   compareOptions, sortByKeys, compareResult, mergedResult,
                   selectedColumns, columnOrder, sortColumns>>

\* onCheckedChange of the key check box of one header of leftData
ToggleCompareKey(header) ==
    /\ leftData # Null
    /\ Includes(leftData.headers, header)
    /\ setCompareKeys(IF ~Includes(compareKeys, header)
                      THEN Append(compareKeys, header)
                      ELSE Without(compareKeys, header))

\* the up, down and remove buttons of entry idx (0-based) of the key order list
MoveCompareKey(idx) ==
    /\ leftData # Null
    /\ idx < Len(compareKeys)
    /\ \/ idx > 0 /\ setCompareKeys(SwapAt(compareKeys, idx - 1, idx))
       \/ idx < Len(compareKeys) - 1 /\ setCompareKeys(SwapAt(compareKeys, idx, idx + 1))
       \/ setCompareKeys(RemoveAt(compareKeys, idx))

\* onCheckedChange of the key check box of one header of splitData
ToggleSplitKey(header) ==
    /\ splitData # Null
    /\ Includes(splitData.headers, header)
    /\ splitKeys' = IF ~Includes(splitKeys, header)
                    THEN Append(splitKeys, header)
                    ELSE Without(splitKeys, header)
    /\ UNCHANGED <<themeVars, draggedColumn, fileVars, lastAlert, keyVars, compareVars, engineCall, splitData, splitResult,
                   selectedSplitColumns, splitColumnOrder, splitSortColumns, zipFiles>>

-----------------------------------------------------------------------------
(* The page from its first render: files are chosen and cleared, keys are   *)
(* selected, deselected and reordered, and the two run buttons are pressed. *)

\* the tables of the files the user can choose
HomeFiles == { ScenarioLeft, ScenarioRight }

\* the file chosen on the left, on the right and in the split tab
HomeLeftFile == File("left.xlsx", ScenarioLeft)
HomeRightFile == File("right.xlsx", ScenarioRight)
HomeSplitFile == File("split.xlsx", ScenarioLeft)

HomeHeaders == UNION { { t.headers[i] : i \in 1..Len(t.headers) } : t \in HomeFiles }

\* most handlers waiting for readExcelFile at a time in this run of the page
HomePendingReads == 1

InitHome ==
    /\ keyRow = <<>> /\ keyOpts = [trim |-> TRUE, case_insensitive |-> FALSE] /\ keyOut = {}
    /\ HomeInit

NextHome ==
    \/ Len(reads) < HomePendingReads /\ handleLeftFileChange(HomeLeftFile)
    \/ Len(reads) < HomePendingReads /\ handleRightFileChange(HomeRightFile)
    \/ Len(reads) < HomePendingReads /\ handleSplitFileChange(HomeSplitFile)
    \/ handleLeftFileRead(0)
    \/ handleRightFileRead(0)
    \/ handleSplitFileRead(0)
    \/ ClearSplitFile
    \/ \E header \in HomeHeaders : ToggleCompareKey(header)
    \/ \E idx \in 0..(Cardinality(HomeHeaders) - 1) : MoveCompareKey(idx)
    \/ \E header \in HomeHeaders : ToggleSplitKey(header)
    \/ handleCompare
    \/ handleSplit

SpecHome == InitHome /\ [][NextHome]_vars

-----------------------------------------------------------------------------
(* C12 *)

\* C12: compare_files is invoked only with both tables loaded and at least
\* one compare key column selected, and split_file only with a table loaded
\* and at least one split key column selected, after any sequence of file
\* choices and key selections and deselections.
C12_NoKeyPrecondition ==
    engineCall # Null =>
        /\ engineCall.loaded
        /\ Len(engineCall.keyColumns) > 0

\* every selected key has been deselected again, the compare button has been
\* pressed in that state, and the engine's last call is still an earlier one
C12_Witness ==
    /\ engineCall # Null
    /\ engineCall.op = "compare_files"
    /\ leftData # Null /\ rightData # Null
    /\ compareKeys = <<>>
    /\ mergedResult # Null

-----------------------------------------------------------------------------
(* C13 *)

\* the alerts of a failed engine operation
FailureAlerts == { "module not available", "compare failed", "split failed" }

\* C13: a step in which handleCompare or handleSplit fails (the module is not
\* available, the engine throws or its output cannot be used) leaves
\* mergedResult, compareResult, selectedColumns, columnOrder, splitResult,
\* selectedSplitColumns and splitColumnOrder as they were, and leaves the
\* tables and key selections as they were, so that the same call can be made
\* again and is not made by the failed handler itself.
C13_FailedOperationChangesNothing ==
    [][ (lastAlert' # lastAlert /\ lastAlert' \in FailureAlerts)
          => UNCHANGED <<mergedResult, compareResult, selectedColumns, columnOrder,
                         splitResult, selectedSplitColumns, splitColumnOrder,
                         leftData, rightData, compareKeys, splitData, splitKeys,
                         engineCall>> ]_vars

\* a compare has succeeded, a later one has failed, and the results of the
\* first are still there
C13_Witness ==
    /\ lastAlert = "compare failed"
    /\ mergedResult # Null /\ compareResult # Null
    /\ selectedColumns = compareKeys /\ Len(compareKeys) = 2
    /\ splitResult # Null

-----------------------------------------------------------------------------
(* Harness for tables with rows shorter than the header list: the same file *)
(* loaded on the left and in the split tab, with the same key selection,    *)
(* then the compare button and the split button.                            *)

\* most rows in a table of this harness
MaxRaggedRows == 2

\* a row that lacks its last cell, and two complete rows
RaggedRowPool ==
    { << <<"a">> >>,
      << <<"a">>, <<"1">> >>,
      << <<"b">>, <<"2">> >> }

RaggedTables ==
    { [headers |-> CompareHeaders, rows |-> rows] :
        rows \in UNION { [1..n -> RaggedRowPool] : n \in 0..MaxRaggedRows } }

InitRagged ==
    /\ keyRow = <<>> /\ keyOpts = [trim |-> TRUE, case_insensitive |-> FALSE] /\ keyOut = {}
    /\ leftData \in RaggedTables
    /\ rightData = ScenarioRight
    /\ compareKeys \in CompareKeyChoices
    /\ compareColumns = <<>>
    /\ compareOptions = [trim |-> TRUE, case_insensitive |-> FALSE]
    /\ sortByKeys \in BOOLEAN
    /\ compareResult = Null /\ mergedResult = Null
    /\ selectedColumns = <<>> /\ columnOrder = <<>> /\ sortColumns = <<>>
    /\ splitData = leftData
    /\ splitKeys = compareKeys
    /\ splitResult = Null
    /\ selectedSplitColumns = <<>> /\ splitColumnOrder = <<>>
    /\ splitSortColumns = <<>> /\ zipFiles = <<>>
    /\ engineCall = Null
    /\ lastAlert = ""
    /\ FilesAsLoaded
    /\ ThemeMounted
    /\ draggedColumn = Null

NextRagged ==
    \/ handleCompare
    \/ handleSplit

SpecRagged == InitRagged /\ [][NextRagged]_vars

-----------------------------------------------------------------------------
(* C14 *)

\* every row has one cell per header, the last of them (the helper column)
\* being the composite key of the row's own cells in the key columns
HelperInPlace(headers, rows, keys, options) ==
    LET keyIndices == [i \in 1..Len(keys) |-> IndexOf(headers, keys[i])]
    IN  \A r \in 1..Len(rows) :
           /\ Len(rows[r]) = Len(headers)
           /\ rows[r][Len(headers)] = combineKeys(rows[r], keyIndices, options)

-----------------------------------------------------------------------------
(* Harness for comparing a table with a copy of itself                      *)

\* most rows in the table
MaxSelfRows == 3

\* rows whose keys differ, differ only by white space or case, or are equal
SelfRowPool ==
    { << <<"A">>, <<"1", "0">> >>,
      << <<"B">>, <<"5">> >>,
      << <<"a", " ">>, <<"x">> >>,
      << <<"a">>, <<"1", "0">> >> }

SelfTables ==
    { [headers |-> CompareHeaders, rows |-> rows] :
        rows \in UNION { [1..n -> SelfRowPool] : n \in 0..MaxSelfRows } }

InitSelf ==
    /\ keyRow = <<>> /\ keyOpts = [trim |-> TRUE, case_insensitive |-> FALSE] /\ keyOut = {}
    /\ leftData \in SelfTables
    /\ rightData = leftData
    /\ compareKeys \in CompareKeyChoices
    /\ compareColumns = <<>>
    /\ compareOptions \in [trim : BOOLEAN, case_insensitive : BOOLEAN]
    /\ sortByKeys \in BOOLEAN
    /\ compareResult = Null /\ mergedResult = Null
    /\ selectedColumns = <<>> /\ columnOrder = <<>> /\ sortColumns = <<>>
    /\ splitData = Null /\ splitKeys = <<>> /\ splitResult = Null
    /\ selectedSplitColumns = <<>> /\ splitColumnOrder = <<>>
    /\ splitSortColumns = <<>> /\ zipFiles = <<>>
    /\ engineCall = Null
    /\ lastAlert = ""
    /\ FilesAsLoaded
    /\ ThemeMounted
    /\ draggedColumn = Null

NextSelf == handleCompare

SpecSelf == InitSelf /\ [][NextSelf]_vars

-----------------------------------------------------------------------------
(* C15 *)

\* no two rows of the table have the same composite key
DistinctKeys(data, keys, options) ==
    LET keyIndices == [i \in 1..Len(keys) |-> IndexOf(data.headers, keys[i])]
    IN  \A r, q \in 1..Len(data.rows) :
           combineKeys(data.rows[r], keyIndices, options)
             = combineKeys(data.rows[q], keyIndices, options) => r = q

\* C15: reconciling a table without two rows of the same composite key
\* against an identical copy of itself gives empty left_only, right_only and
\* duplicates and a matched bucket with as many rows as the table.
C15_IdempotentSelfCompare ==
    (/\ compareResult # Null
     /\ rightData = leftData
     /\ DistinctKeys(leftData, compareKeys, compareOptions))
        => /\ compareResult.left_only.rows = <<>>
           /\ compareResult.right_only.rows = <<>>
           /\ compareResult.duplicates.rows = <<>>
           /\ Len(compareResult.result.rows) = Len(leftData.rows)

\* a table of three rows whose keys differ only by case and white space,
\* compared with itself under the options that keep them apart
C15_Witness ==
    /\ compareResult # Null
    /\ rightData = leftData
    /\ DistinctKeys(leftData, compareKeys, compareOptions)
    /\ Len(leftData.rows) = 3
    /\ \E r \in 1..3 : leftData.rows[r][1] = <<"a", " ">>
    /\ \E r \in 1..3 : leftData.rows[r][1] = <<"a">>
    /\ \E r \in 1..3 : leftData.rows[r][1] = <<"A">>
    /\ Len(compareResult.result.rows) = 3

-----------------------------------------------------------------------------
(* C16 *)

\* C16: the partitions come in the order in which their key value first
\* occurs in the input rows, and the rows of each partition are the input
\* rows of that key in their input order.
C16_OrderPreservingGrouping ==
    splitResult # Null =>
        LET groups == engineCall.rows
            input  == engineCall.input
            keyIdx == IndexOf(input.headers, input.key)
        IN  /\ Len(splitResult.parts) = Len(groups)
            /\ \A p, q \in 1..Len(groups) : p < q => groups[p][1] < groups[q][1]
            /\ \A p \in 1..Len(groups) :
                  /\ \A k, m \in 1..Len(groups[p]) : k < m => groups[p][k] < groups[p][m]
                  /\ \A i \in 1..Len(input.rows) :
                        (\E k \in 1..Len(groups[p]) : groups[p][k] = i)
                            <=> engineCall.keys[i] = splitResult.parts[p].key_value
                  /\ Len(splitResult.parts[p].table.rows) = Len(groups[p])
                  /\ \A k \in 1..Len(groups[p]) :
                        splitResult.parts[p].table.rows[k]
                            = RemoveAt(input.rows[groups[p][k]], keyIdx)

\* the split scenario of the design document: rows [a,1],[b,2],[a,3] keyed on
\* the first column give partition a with the first and third row, then
\* partition b with the second
C16_Witness ==
    /\ splitResult # Null
    /\ splitKeys = <<"id">>
    /\ splitData.rows = << << <<"a">>, <<"1">> >>,
                           << <<"b">>, <<"2">> >>,
                           << <<"a">>, <<"3">> >> >>
    /\ engineCall.rows = << <<1, 3>>, <<2>> >>
    /\ splitResult.parts[1].key_value = <<"a">>
    /\ splitResult.parts[2].key_value = <<"b">>

-----------------------------------------------------------------------------
(* C17 *)

\* C17: every row whose key occurs on its own side only, in however many
\* rows, is placed in left_only (right_only for a right row) and in no other
\* bucket.
C17_OneSidedKeyIsNotAmbiguous ==
    (compareResult # Null /\ engineCall.rows # Null) =>
        LET b  == engineCall.rows
            lk == engineCall.leftKeys
            rk == engineCall.rightKeys
        IN  /\ \A i \in 1..Len(lk) :
                  (\A j \in 1..Len(rk) : rk[j] # lk[i])
                      => /\ i \in Range(b.left_only)
                         /\ i \notin Range(b.dup_left)
                         /\ \A m \in 1..Len(b.matched) : b.matched[m][1] # i
            /\ \A j \in 1..Len(rk) :
                  (\A i \in 1..Len(lk) : lk[i] # rk[j])
                      => /\ j \in Range(b.right_only)
                         /\ j \notin Range(b.dup_right)
                         /\ \A m \in 1..Len(b.matched) : b.matched[m][2] # j
            /\ Len(compareResult.left_only.rows) = Len(b.left_only)
            /\ Len(compareResult.right_only.rows) = Len(b.right_only)
            /\ Len(compareResult.duplicates.rows) = Len(b.dup_left) + Len(b.dup_right)

\* two left rows of one key and two right rows of another key: four rows in
\* left_only and right_only, none in duplicates
C17_Witness ==
    /\ compareResult # Null
    /\ Len(engineCall.leftKeys) = 2 /\ engineCall.leftKeys[1] = engineCall.leftKeys[2]
    /\ Len(engineCall.rightKeys) = 2 /\ engineCall.rightKeys[1] = engineCall.rightKeys[2]
    /\ Len(compareResult.left_only.rows) = 2
    /\ Len(compareResult.right_only.rows) = 2
    /\ compareResult.duplicates.rows = <<>>
    /\ compareResult.result.rows = <<>>

-----------------------------------------------------------------------------
(* The three sort slots of each tab.  A JavaScript array can have holes:   *)
(* assigning past its end leaves the skipped elements undefined.            *)

\* undefined, the value of an array hole
Undefined == [undefined |-> TRUE]

\* the number of sort slots shown, and the length slice(0, 3) cuts to
SortSlots == 3

\* sortColumns[idx] || { column: "", direction: "asc" }
SlotOf(cols, idx) ==
    IF idx < Len(cols) /\ cols[idx + 1] # Undefined
    THEN cols[idx + 1]
    ELSE [column |-> "", direction |-> "asc"]

\* arr[idx] = v on a copy of arr
SetIndex(arr, idx, v) ==
    [k \in 1..(IF idx + 1 > Len(arr) THEN idx + 1 ELSE Len(arr)) |->
        IF k = idx + 1 THEN v
        ELSE IF k <= Len(arr) THEN arr[k] ELSE Undefined]

\* arr.slice(0, n)
SliceTo(arr, n) == SubSeq(arr, 1, IF Len(arr) < n THEN Len(arr) ELSE n)

\* a select handler that inserts the new entry before slot idx and keeps all
InsertSortSlot(cols, idx, value) ==
    IF value # ""
    THEN LET at == IF idx < Len(cols) THEN idx ELSE Len(cols)
         IN  SubSeq(cols, 1, at)
               \o << [column |-> value, direction |-> SlotOf(cols, idx).direction] >>
               \o SubSeq(cols, at + 1, Len(cols))
    ELSE RemoveAt(cols, idx)

\* onChange of the select of slot idx with the chosen value ("" clears)
SelectSortSlot(cols, idx, value) ==
    IF value # ""
    THEN SliceTo(SetIndex(cols, idx, [column |-> value,
                                      direction |-> SlotOf(cols, idx).direction]),
                 SortSlots)
    ELSE RemoveAt(cols, idx)

\* onClick of the descending / ascending button of slot idx
SetSortSlotDirection(cols, idx, direction) ==
    SetIndex(cols, idx, [column |-> SlotOf(cols, idx).column, direction |-> direction])

\* onClick of the X button of slot idx: splice(idx, 1)
RemoveSortSlot(cols, idx) == RemoveAt(cols, idx)

\* the arrays one user action on slot idx can turn cols into, the select
\* offering the given headers; the select fires when its value changes, the
\* direction buttons are disabled and the X button is absent without a column
SortSlotResults(cols, idx, headers) ==
    { SelectSortSlot(cols, idx, value) :
        value \in (headers \cup (IF SlotOf(cols, idx).column # "" THEN {""} ELSE {}))
                    \ {SlotOf(cols, idx).column} }
    \cup (IF SlotOf(cols, idx).column # ""
          THEN { SetSortSlotDirection(cols, idx, d) : d \in {"asc", "desc"} }
                 \cup { RemoveSortSlot(cols, idx) }
          ELSE {})

\* a user action on sort slot idx of the compare tab
ChangeSortSlot(idx) ==
    /\ mergedResult # Null
    /\ \E cols \in SortSlotResults(sortColumns, idx,
                     { filteredMergedResult.headers[i] :
                         i \in 1..Len(filteredMergedResult.headers) }) :
          sortColumns' = cols
    /\ UNCHANGED <<themeVars, draggedColumn, fileVars, lastAlert, keyVars, splitVars, engineCall, leftData, rightData,
                   compareKeys, compareColumns, compareOptions, sortByKeys,
                   compareResult, mergedResult, selectedColumns, columnOrder>>

\* a user action on sort slot idx of the split tab
ChangeSplitSortSlot(idx) ==
    /\ splitResult # Null
    /\ LET headers == IF Len(splitResult.parts) > 0
                      THEN filterColumns(splitResult.parts[1].table,
                                         selectedSplitColumns, splitColumnOrder).headers
                      ELSE <<>>
       IN  \E cols \in SortSlotResults(splitSortColumns, idx,
                                       { headers[i] : i \in 1..Len(headers) }) :
              splitSortColumns' = cols
    /\ UNCHANGED <<themeVars, draggedColumn, fileVars, lastAlert, keyVars, compareVars, engineCall, splitData, splitKeys,
                   splitResult, selectedSplitColumns, splitColumnOrder, zipFiles>>

-----------------------------------------------------------------------------
(* Harness for the sort slots: a merged result and a split result with two  *)
(* columns selected, no sort chosen yet.                                    *)

InitSlots ==
    /\ keyRow = <<>> /\ keyOpts = [trim |-> TRUE, case_insensitive |-> FALSE] /\ keyOut = {}
    /\ leftData = Null /\ rightData = Null
    /\ compareKeys = <<"k">> /\ compareColumns = <<>>
    /\ compareOptions = [trim |-> TRUE, case_insensitive |-> FALSE]
    /\ sortByKeys = TRUE
    /\ compareResult = Null
    /\ mergedResult \in { t \in SortTables : Len(t.rows) = 1 }
    /\ selectedColumns = <<"k", "v">> /\ columnOrder = <<"k", "v">>
    /\ sortColumns = <<>>
    /\ splitData = Null /\ splitKeys = <<"k">>
    /\ splitResult = [parts |-> << [key_value |-> <<"p">>, table |-> mergedResult] >>]
    /\ selectedSplitColumns = <<"k", "v">> /\ splitColumnOrder = <<"k", "v">>
    /\ splitSortColumns = <<>>
    /\ zipFiles = <<>>
    /\ engineCall = Null
    /\ lastAlert = ""
    /\ FilesAsLoaded
    /\ ThemeMounted
    /\ draggedColumn = Null

NextSlots ==
    \/ \E idx \in 0..(SortSlots - 1) : ChangeSortSlot(idx)
    \/ \E idx \in 0..(SortSlots - 1) : ChangeSplitSortSlot(idx)

SpecSlots == InitSlots /\ [][NextSlots]_vars

-----------------------------------------------------------------------------
(* C19 *)

\* C19: after any sequence of sort-slot operations the sort spec list of the
\* compare result and the one of the split result hold at most 3 entries.
C19_AtMostThreeSortSpecs ==
    /\ Len(sortColumns) <= 3
    /\ Len(splitSortColumns) <= 3

\* the third slot was filled first, then the first, and the second slot's
\* entry of the split tab was removed again
C19_Witness ==
    /\ Len(sortColumns) = 3
    /\ sortColumns[1] # Undefined /\ sortColumns[2] = Undefined
    /\ sortColumns[3] # Undefined /\ sortColumns[3].direction = "desc"
    /\ Len(splitSortColumns) = 2
    /\ splitSortColumns[1] # Undefined /\ splitSortColumns[2] # Undefined

-----------------------------------------------------------------------------
(* Harness for the effect of sorting and key building on their inputs:      *)
(* tables that are not in key order and hold cells that trim and case       *)
(* folding change; the run buttons, the download and the first sort slot.   *)

\* rows out of key order, with a key cell that trim and toLowerCase change
UnsortedLeft ==
    [ headers |-> CompareHeaders,
      rows    |-> << << <<"B", " ">>, <<"5">> >>, << <<"A">>, <<"1", "0">> >> >> ]

UnsortedRight ==
    [ headers |-> CompareHeaders,
      rows    |-> << << <<"b">>, <<"7">> >>, << <<"A">>, <<"2", "0">> >> >> ]

InitFrame ==
    /\ keyRow = <<>> /\ keyOpts = [trim |-> TRUE, case_insensitive |-> FALSE] /\ keyOut = {}
    /\ leftData = UnsortedLeft
    /\ rightData = UnsortedRight
    /\ compareKeys \in CompareKeyChoices
    /\ compareColumns = <<>>
    /\ compareOptions \in [trim : BOOLEAN, case_insensitive : BOOLEAN]
    /\ sortByKeys \in BOOLEAN
    /\ compareResult = Null /\ mergedResult = Null
    /\ selectedColumns = <<>> /\ columnOrder = <<>> /\ sortColumns = <<>>
    /\ splitData = UnsortedLeft
    /\ splitKeys \in SplitKeyChoices
    /\ splitResult = Null
    /\ selectedSplitColumns = <<>> /\ splitColumnOrder = <<>>
    /\ splitSortColumns = <<>> /\ zipFiles = <<>>
    /\ engineCall = Null
    /\ lastAlert = ""
    /\ FilesAsLoaded
    /\ ThemeMounted
    /\ draggedColumn = Null

NextFrame ==
    \/ handleCompare
    \/ handleSplit
    \/ handleDownloadSplit
    \/ ChangeSortSlot(0)
    \/ ChangeSplitSortSlot(0)

SpecFrame == InitFrame /\ [][NextFrame]_vars

-----------------------------------------------------------------------------
(* C18 *)

\* C18: a step of handleCompare, handleSplit or handleDownloadSplit (known by
\* the result, engine call or archive it produces) leaves the rows and cells
\* of leftData, rightData and splitData as they were, the download leaves
\* splitResult as it was, and a change of the sort specs of either tab leaves
\* mergedResult and splitResult as they were.
C18_InputsAreNotMutated ==
    [][ /\ (\/ compareResult' # compareResult \/ mergedResult' # mergedResult
            \/ splitResult' # splitResult \/ engineCall' # engineCall
            \/ zipFiles' # zipFiles)
           => UNCHANGED <<leftData, rightData, splitData>>
        /\ zipFiles' # zipFiles => UNCHANGED splitResult
        /\ (sortColumns' # sortColumns \/ splitSortColumns' # splitSortColumns)
           => UNCHANGED <<mergedResult, splitResult, leftData, rightData, splitData>>
      ]_vars

\* the pre-sort has put the rows handed to the engine in key order and the
\* keys were built with trim and case folding, the user sort shows the merged
\* rows in another order than mergedResult holds them, the split result has
\* been downloaded with a sort chosen; the tables are as they were loaded
C18_Witness ==
    /\ compareResult # Null /\ sortByKeys
    /\ compareOptions = [trim |-> TRUE, case_insensitive |-> TRUE]
    /\ leftData = UnsortedLeft /\ rightData = UnsortedRight /\ splitData = UnsortedLeft
    /\ engineCall.op = "split_file"
    /\ Len(sortColumns) = 1
    /\ sortedMergedResult.rows # filteredMergedResult.rows
    /\ Len(splitSortColumns) = 1
    /\ zipFiles # <<>>

-----------------------------------------------------------------------------
(* C20 *)

\* C20: the header list of the merged table starts with the key columns that
\* the engine's result holds as L__ or R__ columns, in the order of
\* compareKeys and each once; the other headers of the engine's result follow
\* in the order in which they stand there, then the labels of the diff specs.
C20_KeyColumnsComeFirst ==
    mergedResult # Null =>
        LET engineHeaders == compareResult.result.headers
            folded == SelectSeq(compareKeys,
                          LAMBDA k : \E i \in 1..Len(engineHeaders) :
                                        \/ engineHeaders[i] = "L__" \o k
                                        \/ engineHeaders[i] = "R__" \o k)
            others == SelectSeq(engineHeaders,
                          LAMBDA header : ~IsKeyColumn(header, compareKeys))
            diffs  == activeDiffs(compareColumns)
        IN  mergedResult.headers
              = folded \o others \o [d \in 1..Len(diffs) |-> diffs[d].label]

-----------------------------------------------------------------------------
(* C21 *)

\* the cell of a bucket row under the header `name` of the engine's result,
\* empty when the result has no such header or the row ends before it
BucketCell(row, name) ==
    LET engineHeaders == compareResult.result.headers
        at == { i \in 1..Len(engineHeaders) : engineHeaders[i] = name /\ i <= Len(row) }
    IN  IF at = {} THEN EmptyStr ELSE row[CHOOSE i \in at : \A j \in at : i <= j]

\* C21: in every row of the merged table the cell of a folded key column k is
\* the L__k cell of the bucket row it was made from when that cell is not
\* empty, else the R__k cell of that row, else the empty string.
C21_KeyValueProjection ==
    mergedResult # Null =>
        LET rows   == mergedRows(compareResult)
            folded == processedKeys(compareResult.result.headers, compareKeys)
        IN  \A r \in 1..Len(rows) : \A c \in 1..Len(mergedResult.headers) :
                mergedResult.headers[c] \in folded =>
                    mergedResult.rows[r][c] =
                        IF BucketCell(rows[r], "L__" \o mergedResult.headers[c]) # EmptyStr
                        THEN BucketCell(rows[r], "L__" \o mergedResult.headers[c])
                        ELSE BucketCell(rows[r], "R__" \o mergedResult.headers[c])

\* a merged table with a row that has no left key cell and shows the right
\* one, and a row whose left and right key cells differ
C21_Witness ==
    /\ mergedResult # Null
    /\ LET rows == mergedRows(compareResult)
       IN  /\ \E r \in 1..Len(rows) :
                 /\ BucketCell(rows[r], "L__id") = EmptyStr
                 /\ BucketCell(rows[r], "R__id") # EmptyStr
           /\ \E r \in 1..Len(rows) :
                 /\ BucketCell(rows[r], "L__id") # EmptyStr
                 /\ BucketCell(rows[r], "R__id") # EmptyStr
                 /\ BucketCell(rows[r], "L__id") # BucketCell(rows[r], "R__id")

-----------------------------------------------------------------------------
(* C22 *)

\* a cell as a number, 0 when it is empty or does not parse
C22_Number(cell) ==
    IF cell = EmptyStr \/ parseFloat(cell).nan THEN 0 ELSE parseFloat(cell).value

\* C22: the headers of the merged table are the unified headers followed by
\* the labels of the diff specs whose left, right and label are all non-empty,
\* in the order of compareColumns and one column per such spec, and the cell
\* of each of these columns is the L__left cell minus the R__right cell of the
\* bucket row as the engine returned it, key columns included.
C22_DiffColumnPlacement ==
    mergedResult # Null =>
        LET engineHeaders == compareResult.result.headers
            rows   == mergedRows(compareResult)
            folded == processedKeys(engineHeaders, compareKeys)
            others == SelectSeq(engineHeaders,
                          LAMBDA header : ~IsKeyColumn(header, compareKeys))
            n      == Cardinality(folded) + Len(others)
            specs  == SelectSeq(compareColumns,
                          LAMBDA col : col.left # "" /\ col.right # "" /\ col.label # "")
        IN  /\ Len(mergedResult.headers) = n + Len(specs)
            /\ \A d \in 1..Len(specs) : mergedResult.headers[n + d] = specs[d].label
            /\ \A r \in 1..Len(rows) : \A d \in 1..Len(specs) :
                  mergedResult.rows[r][n + d] =
                      NumberToString(
                          C22_Number(BucketCell(rows[r], "L__" \o specs[d].left))
                            - C22_Number(BucketCell(rows[r], "R__" \o specs[d].right)))

\* two diff columns, one of them reading the left cell of a folded key column
\* and showing a value that is not 0
C22_Witness ==
    /\ mergedResult # Null
    /\ Len(compareColumns) = 2
    /\ \E d \in 1..2 :
          /\ IsKeyColumn("L__" \o compareColumns[d].left, compareKeys)
          /\ \E r \in 1..Len(mergedResult.rows) :
                /\ Len(mergedResult.rows[r]) = Len(mergedResult.headers)
                /\ mergedResult.rows[r][Len(mergedResult.headers) - 2 + d] \notin {<<"0">>, EmptyStr}
                /\ BucketCell(mergedRows(compareResult)[r], "R__" \o compareColumns[d].right)
                      = EmptyStr

-----------------------------------------------------------------------------
(* C23 *)

\* the ascending comparison of rows a and b in the column at idx
C23_Ascending(a, b, idx) ==
    OrZero(parseFloat(CellOrEmpty(a, idx))).value
        - OrZero(parseFloat(CellOrEmpty(b, idx))).value

\* the comparison of one sort spec: the ascending one, negated for desc
C23_OfSpec(a, b, headers, sortCol) ==
    IF sortCol.direction = "desc"
    THEN 0 - C23_Ascending(a, b, IndexOf(headers, sortCol.column))
    ELSE C23_Ascending(a, b, IndexOf(headers, sortCol.column))

\* the comparison of the first spec, in list order, whose column is in the
\* table and that tells a and b apart; 0 when there is none
C23_Chain(a, b, headers, sortCols) ==
    LET deciding == { i \in 1..Len(sortCols) :
                        /\ Includes(headers, sortCols[i].column)
                        /\ C23_OfSpec(a, b, headers, sortCols[i]) # 0 }
    IN  IF deciding = {} THEN 0
        ELSE C23_OfSpec(a, b, headers,
                        sortCols[CHOOSE i \in deciding : \A j \in deciding : i <= j])

\* C23: the comparator of the user sort returns, for any two rows, the value
\* of the first sort spec in list order whose column is in the table and whose
\* comparison of the two rows is not 0, a spec whose column is not in the
\* table taking no part and desc being the negation of asc; and the rows of
\* sortedMergedResult stand in the order of that chain.
C23_SortPriorityChain ==
    (mergedResult # Null /\ Len(sortColumns) > 0) =>
        LET headers == filteredMergedResult.headers
            input   == filteredMergedResult.rows
            output  == sortedMergedResult.rows
        IN  /\ \A i, j \in 1..Len(input) :
                  userSortCompare(input[i], input[j], headers, sortColumns)
                      = C23_Chain(input[i], input[j], headers, sortColumns)
            /\ \A p, q \in 1..Len(output) :
                  p < q => C23_Chain(output[p], output[q], headers, sortColumns) <= 0

\* the first sort column is not among the shown columns, the second one is
\* and is descending, and it has put a later row before an earlier one
C23_Witness ==
    /\ mergedResult # Null
    /\ sortColumns = << [column |-> "w", direction |-> "asc"],
                        [column |-> "v", direction |-> "desc"] >>
    /\ ~Includes(filteredMergedResult.headers, "w")
    /\ Includes(filteredMergedResult.headers, "v")
    /\ Len(sortedMergedOrder) = 3
    /\ sortedMergedOrder # <<1, 2, 3>>

-----------------------------------------------------------------------------
(* Harness for file loading: files are chosen and cleared on the three      *)
(* inputs while earlier calls of readExcelFile are still waiting, and the   *)
(* waiting calls settle in any order.                                       *)

\* most handlers waiting for readExcelFile at a time
MaxPendingReads == 2

\* two workbooks and a file that cannot be read
FileChoices ==
    { File("a.xlsx", ScenarioLeft), File("b.xlsx", ScenarioRight), File("x.xlsx", Null) }

InitFiles == InitHome

NextFiles ==
    \/ /\ Len(reads) < MaxPendingReads
       /\ \E file \in FileChoices :
             \/ handleLeftFileChange(file)
             \/ handleRightFileChange(file)
             \/ handleSplitFileChange(file)
    \/ \E idx \in 0..(MaxPendingReads - 1) :
          \/ handleLeftFileRead(idx)
          \/ handleRightFileRead(idx)
          \/ handleSplitFileRead(idx)
    \/ ClearLeftFile
    \/ ClearRightFile
    \/ ClearSplitFile

SpecFiles == InitFiles /\ [][NextFiles]_vars

-----------------------------------------------------------------------------
(* C24 *)

\* the table is the parsed content of the file: both null, or both set and
\* the table is what readExcelFile gives for the file
ParsedContent(file, data) ==
    IF file = Null THEN data = Null ELSE data # Null /\ data = file.data

\* C24: once no call of readExcelFile is waiting, leftData is the parsed
\* content of leftFile, rightData of rightFile and splitData of splitFile,
\* whatever the order in which files were chosen and cleared and the reads
\* settled.
C24_FileLoadsNeverCross ==
    reads = <<>> =>
        /\ ParsedContent(leftFile, leftData)
        /\ ParsedContent(rightFile, rightData)
        /\ ParsedContent(splitFile, splitData)

-----------------------------------------------------------------------------
(* Themes: the theme menu, the two theme effects of Home and the inline     *)
(* script of RootLayout, over loads of the page; a file is chosen on the    *)
(* left input, so that a load has state of Home to reset.                   *)

\* localStorage.getItem("theme") when nothing is stored: null, which the
\* code tells from a theme id by truthiness and by ===, as it would ""
NoItem == ""

\* the ids of `themes`
Themes == { "dark", "light", "ocean", "forest" }

\* the theme classes the first effect leaves on the root element
ThemeClasses(theme) ==
    IF theme = "dark" THEN {"dark"}
    ELSE IF theme # "light" THEN {"theme-" \o theme}
    ELSE {}

\* the theme classes the inline script of RootLayout leaves on the root
\* element for the stored item
InlineScriptClasses(savedTheme) ==
    IF savedTheme = "dark" THEN {"dark"}
    ELSE IF savedTheme = "ocean" THEN {"theme-ocean"}
    ELSE IF savedTheme = "forest" THEN {"theme-forest"}
    ELSE {"dark"}

\* what runs when the page is loaded: the inline script while the document
\* is parsed, then the effects of Home in the order of their declaration
MountSteps == <<"script", "apply", "load">>

\* the page is loaded (again): every useState of Home has its initial value,
\* <html> has the class "dark", localStorage is as it was
LoadPage ==
    /\ themeEffects = <<>>
    /\ currentTheme' = "dark"
    /\ showThemeMenu' = FALSE
    /\ rootClass' = {"dark"}
    /\ themeEffects' = MountSteps
    /\ storedAtLoad' = storedTheme
    /\ leftFile' = Null /\ rightFile' = Null /\ splitFile' = Null /\ reads' = <<>>
    /\ leftData' = Null /\ rightData' = Null
    /\ compareKeys' = <<>> /\ compareColumns' = <<>>
    /\ compareOptions' = [trim |-> TRUE, case_insensitive |-> FALSE]
    /\ sortByKeys' = TRUE
    /\ compareResult' = Null /\ mergedResult' = Null
    /\ selectedColumns' = <<>> /\ columnOrder' = <<>> /\ sortColumns' = <<>>
    /\ splitData' = Null /\ splitKeys' = <<>> /\ splitResult' = Null
    /\ selectedSplitColumns' = <<>> /\ splitColumnOrder' = <<>>
    /\ splitSortColumns' = <<>>
    /\ draggedColumn' = Null
    /\ UNCHANGED <<keyVars, storedTheme, zipFiles, engineCall, lastAlert>>

\* the inline script of RootLayout
RunInlineScript ==
    /\ themeEffects # <<>> /\ Head(themeEffects) = "script"
    /\ rootClass' = InlineScriptClasses(storedTheme)
    /\ themeEffects' = Tail(themeEffects)
    /\ UNCHANGED <<keyVars, compareVars, splitVars, engineCall, fileVars, lastAlert,
                   draggedColumn, currentTheme, showThemeMenu, storedTheme, storedAtLoad>>

\* the effect with the dependency [currentTheme]: it sets the class and
\* stores the theme
ApplyThemeEffect ==
    /\ themeEffects # <<>> /\ Head(themeEffects) = "apply"
    /\ rootClass' = ThemeClasses(currentTheme)
    /\ storedTheme' = currentTheme
    /\ themeEffects' = Tail(themeEffects)
    /\ UNCHANGED <<keyVars, compareVars, splitVars, engineCall, fileVars, lastAlert,
                   draggedColumn, currentTheme, showThemeMenu, storedAtLoad>>

\* the effect with the dependency []: it reads the stored theme; a changed
\* currentTheme makes the first effect run again
LoadThemeEffect ==
    /\ themeEffects # <<>> /\ Head(themeEffects) = "load"
    /\ LET savedTheme == storedTheme
           theme == IF savedTheme # NoItem /\ savedTheme \in Themes THEN savedTheme ELSE "dark"
       IN  /\ currentTheme' = theme
           /\ themeEffects' = Tail(themeEffects)
                                \o (IF theme # currentTheme THEN <<"apply">> ELSE <<>>)
    /\ UNCHANGED <<keyVars, compareVars, splitVars, engineCall, fileVars, lastAlert,
                   draggedColumn, showThemeMenu, storedTheme, rootClass, storedAtLoad>>

\* the button that opens and closes the theme menu
ToggleThemeMenu ==
    /\ themeEffects = <<>>
    /\ showThemeMenu' = ~showThemeMenu
    /\ UNCHANGED <<keyVars, compareVars, splitVars, engineCall, fileVars, lastAlert,
                   draggedColumn, currentTheme, storedTheme, rootClass, themeEffects,
                   storedAtLoad>>

\* onClick of one entry of the theme menu
SelectTheme(theme) ==
    /\ themeEffects = <<>>
    /\ showThemeMenu
    /\ currentTheme' = theme
    /\ showThemeMenu' = FALSE
    /\ themeEffects' = IF theme # currentTheme THEN <<"apply">> ELSE <<>>
    /\ storedAtLoad' = NoItem
    /\ UNCHANGED <<keyVars, compareVars, splitVars, engineCall, fileVars, lastAlert,
                   draggedColumn, storedTheme, rootClass>>

\* the first load of the page in a browser that has no stored theme
InitTheme ==
    /\ keyRow = <<>> /\ keyOpts = [trim |-> TRUE, case_insensitive |-> FALSE] /\ keyOut = {}
    /\ leftData = Null /\ rightData = Null
    /\ compareKeys = <<>> /\ compareColumns = <<>>
    /\ compareOptions = [trim |-> TRUE, case_insensitive |-> FALSE]
    /\ sortByKeys = TRUE
    /\ compareResult = Null /\ mergedResult = Null
    /\ selectedColumns = <<>> /\ columnOrder = <<>> /\ sortColumns = <<>>
    /\ splitData = Null /\ splitKeys = <<>> /\ splitResult = Null
    /\ selectedSplitColumns = <<>> /\ splitColumnOrder = <<>>
    /\ splitSortColumns = <<>> /\ zipFiles = <<>>
    /\ engineCall = Null
    /\ lastAlert = ""
    /\ leftFile = Null /\ rightFile = Null /\ splitFile = Null /\ reads = <<>>
    /\ draggedColumn = Null
    /\ currentTheme = "dark"
    /\ showThemeMenu = FALSE
    /\ storedTheme = NoItem
    /\ rootClass = {"dark"}
    /\ themeEffects = MountSteps
    /\ storedAtLoad = NoItem

NextTheme ==
    \/ LoadPage
    \/ RunInlineScript
    \/ ApplyThemeEffect
    \/ LoadThemeEffect
    \/ ToggleThemeMenu
    \/ \E theme \in Themes : SelectTheme(theme)
    \/ Len(reads) < HomePendingReads /\ handleLeftFileChange(HomeLeftFile)
    \/ handleLeftFileRead(0)

SpecTheme == InitTheme /\ [][NextTheme]_vars

-----------------------------------------------------------------------------
(* C25 *)

\* C25: when the page is loaded with one of the four themes stored, the
\* class the inline script puts on the root element is that of the stored
\* theme, the stored theme is still the one found at the load when the
\* effect that reads it is about to run, and once the mount effects have run
\* the current theme is the theme that was stored at the load.
C25_ThemePersistence ==
    storedAtLoad \in Themes =>
        /\ (themeEffects # <<>> /\ Head(themeEffects) = "apply" /\ Len(themeEffects) = 2)
              => rootClass = ThemeClasses(storedAtLoad)
        /\ (themeEffects # <<>> /\ Head(themeEffects) = "load")
              => storedTheme = storedAtLoad
        /\ themeEffects = <<>> => currentTheme = storedAtLoad

-----------------------------------------------------------------------------
(* Harness for key selections over changing files: workbooks with different *)
(* header rows are chosen, replaced and cleared on the two inputs of the    *)
(* compare tab, keys are selected and deselected, and the compare button is *)
(* pressed.                                                                 *)

\* a workbook whose headers are not those of ScenarioLeft
ScenarioOther ==
    [ headers |-> <<"sku">>,
      rows    |-> << << <<"S">> >> >> ]

ReplaceFiles ==
    { File("orders.xlsx", ScenarioLeft), File("stock.xlsx", ScenarioOther) }

ReplaceHeaders == { "id", "amt", "sku" }

InitReplace == InitHome

NextReplace ==
    \/ /\ Len(reads) < HomePendingReads
       /\ \E file \in ReplaceFiles :
             \/ handleLeftFileChange(file)
             \/ handleRightFileChange(file)
    \/ handleLeftFileRead(0)
    \/ handleRightFileRead(0)
    \/ ClearLeftFile
    \/ ClearRightFile
    \/ \E header \in ReplaceHeaders : ToggleCompareKey(header)
    \/ handleCompare

SpecReplace == InitReplace /\ [][NextReplace]_vars

-----------------------------------------------------------------------------
(* C26 *)

\* the headers of the table a call was made with: those handed to the engine
\* without the helper column appended last
C26_TableHeaders(headersWithKey) == SubSeq(headersWithKey, 1, Len(headersWithKey) - 1)

\* C26: whenever compare_files has been invoked, every compare key selected
\* at the call is a header of the left table and of the right table of the
\* call, and whenever split_file has been invoked every split key selected at
\* the call is a header of the split table of the call.
C26_KeysNameRealColumns ==
    engineCall # Null =>
        \A i \in 1..Len(engineCall.keyColumns) :
            IF engineCall.op = "compare_files"
            THEN /\ Includes(C26_TableHeaders(engineCall.input.left_headers),
                             engineCall.keyColumns[i])
                 /\ Includes(C26_TableHeaders(engineCall.input.right_headers),
                             engineCall.keyColumns[i])
            ELSE Includes(C26_TableHeaders(engineCall.input.headers),
                          engineCall.keyColumns[i])

-----------------------------------------------------------------------------
(* Harness for the archive: tables whose key cells hold characters that     *)
(* safeFileName replaces, split by that column and downloaded.              *)

\* most rows in a table of this harness
MaxArchiveRows == 3

\* key cells with ":", "/", a blank and "_" between the same letters
ArchiveRowPool ==
    { << <<"a", ":", "b">>, <<"1">> >>,
      << <<"a", "/", "b">>, <<"2">> >>,
      << <<"a", " ", "b">>, <<"3">> >>,
      << <<"a", "_", "b">>, <<"4">> >> }

ArchiveTables ==
    { [headers |-> <<"amt", "id">>, rows |-> [r \in 1..Len(rows) |-> <<rows[r][2], rows[r][1]>>]] :
        rows \in UNION { [1..n -> ArchiveRowPool] : n \in 0..MaxArchiveRows } }

InitArchive ==
    /\ keyRow = <<>> /\ keyOpts = [trim |-> TRUE, case_insensitive |-> FALSE] /\ keyOut = {}
    /\ leftData = Null /\ rightData = Null
    /\ compareKeys = <<>> /\ compareColumns = <<>>
    /\ compareOptions = [trim |-> TRUE, case_insensitive |-> FALSE]
    /\ sortByKeys = TRUE
    /\ compareResult = Null /\ mergedResult = Null
    /\ selectedColumns = <<>> /\ columnOrder = <<>> /\ sortColumns = <<>>
    /\ splitData \in ArchiveTables
    /\ splitKeys \in { <<>>, <<"id">>, <<"id", "amt">> }
    /\ splitResult = Null
    /\ selectedSplitColumns = <<>> /\ splitColumnOrder = <<>>
    /\ splitSortColumns = <<>> /\ zipFiles = <<>>
    /\ engineCall = Null
    /\ lastAlert = ""
    /\ FilesAsLoaded
    /\ ThemeMounted
    /\ draggedColumn = Null

NextArchive ==
    \/ handleSplit
    \/ handleDownloadSplit

SpecArchive == InitArchive /\ [][NextArchive]_vars

-----------------------------------------------------------------------------
(* C27 *)

\* C27: the file names handleDownloadSplit derives for two partitions with
\* different key_value are different, and the archive it has written holds as
\* many files as splitResult has partitions.
C27_OneEntryPerPartition ==
    splitResult # Null =>
        /\ \A p, q \in 1..Len(splitResult.parts) :
              splitResult.parts[p].key_value # splitResult.parts[q].key_value
                  => safeFileName(splitResult.parts[p].key_value)
                        # safeFileName(splitResult.parts[q].key_value)
        /\ zipFiles # <<>> => Len(zipFiles) = Len(splitResult.parts)

-----------------------------------------------------------------------------
(* C28 *)

\* every position of a sort spec list holds an entry with a column and a
\* direction
C28_WellFormed(sortCols) ==
    \A i \in 1..Len(sortCols) :
        /\ sortCols[i] # Undefined
        /\ sortCols[i].column # ""
        /\ sortCols[i].direction \in {"asc", "desc"}

\* C28: after any sequence of sort-slot operations every position of
\* sortColumns and of splitSortColumns below its length holds a defined entry
\* with a non-empty column and a direction asc or desc, so that the comparator
\* of the user sort never reads an undefined entry.
C28_SortSpecsWellFormed ==
    /\ C28_WellFormed(sortColumns)
    /\ C28_WellFormed(splitSortColumns)

-----------------------------------------------------------------------------
(* The column order list of the compare tab: move buttons and drag and drop *)

\* the list the column order section shows, and from which its handlers
\* build the new order
currentOrder ==
    IF Len(columnOrder) > 0 /\ Len(columnOrder) = Len(selectedColumns)
    THEN FilterIn(columnOrder, { selectedColumns[i] : i \in 1..Len(selectedColumns) })
    ELSE selectedColumns

\* arr.splice(start, 1): start < 0 counts from the end
SpliceOut(arr, start) ==
    LET from == IF start < 0 THEN (IF Len(arr) + start < 0 THEN 0 ELSE Len(arr) + start)
                ELSE start
    IN  IF from >= Len(arr) THEN arr ELSE RemoveAt(arr, from)

\* arr.splice(start, 0, x) for start >= 0
SpliceIn(arr, start, x) ==
    LET at == IF start > Len(arr) THEN Len(arr) ELSE start
    IN  SubSeq(arr, 1, at) \o <<x>> \o SubSeq(arr, at + 1, Len(arr))

\* the up button of entry idx (0-based) of the column order list
MoveOutputColumnUp(idx) ==
    /\ mergedResult # Null
    /\ idx < Len(currentOrder)
    /\ idx > 0
    /\ columnOrder' = SwapAt(currentOrder, idx - 1, idx)
    /\ UNCHANGED <<themeVars, draggedColumn, fileVars, lastAlert, keyVars, splitVars,
                   engineCall, leftData, rightData, compareKeys, compareColumns,
                   compareOptions, sortByKeys, compareResult, mergedResult,
                   selectedColumns, sortColumns>>

\* the down button of entry idx (0-based) of the column order list
MoveOutputColumnDown(idx) ==
    /\ mergedResult # Null
    /\ idx < Len(currentOrder) - 1
    /\ columnOrder' = SwapAt(currentOrder, idx, idx + 1)
    /\ UNCHANGED <<themeVars, draggedColumn, fileVars, lastAlert, keyVars, splitVars,
                   engineCall, leftData, rightData, compareKeys, compareColumns,
                   compareOptions, sortByKeys, compareResult, mergedResult,
                   selectedColumns, sortColumns>>

\* the value of draggedColumn while column col is dragged (null otherwise)
Dragged(col) == [column |-> col]

\* onDragStart of the entry of column col
DragStartColumn(col) ==
    /\ mergedResult # Null
    /\ Includes(currentOrder, col)
    /\ draggedColumn' = Dragged(col)
    /\ UNCHANGED <<themeVars, fileVars, lastAlert, keyVars, splitVars, compareVars,
                   engineCall>>

\* onDrop on the entry of column col
DropOnColumn(col) ==
    /\ mergedResult # Null
    /\ Includes(currentOrder, col)
    /\ IF draggedColumn # Null /\ draggedColumn # Dragged(col)
       THEN LET draggedIdx == IndexOf(currentOrder, draggedColumn.column)
                targetIdx  == IndexOf(currentOrder, col)
            IN  columnOrder' = SpliceIn(SpliceOut(currentOrder, draggedIdx),
                                        targetIdx, draggedColumn.column)
       ELSE UNCHANGED columnOrder
    /\ draggedColumn' = Null
    /\ UNCHANGED <<themeVars, fileVars, lastAlert, keyVars, splitVars, engineCall,
                   leftData, rightData, compareKeys, compareColumns, compareOptions,
                   sortByKeys, compareResult, mergedResult, selectedColumns,
                   sortColumns>>

\* onDragEnd
DragEndColumn ==
    /\ draggedColumn # Null
    /\ draggedColumn' = Null
    /\ UNCHANGED <<themeVars, fileVars, lastAlert, keyVars, splitVars, compareVars,
                   engineCall>>

-----------------------------------------------------------------------------
(* Harness for the output columns: two tables are loaded, keys are selected *)
(* and deselected, the compare is run, output columns are checked and       *)
(* unchecked and the column order list is rearranged.                       *)

\* the names that occur as headers of the merged table of this harness
OutputHeaders == { "id", "amt", "L__amt", "R__amt" }

\* most entries of the column order list
MaxOrderEntries == 3

InitOutput ==
    /\ keyRow = <<>> /\ keyOpts = [trim |-> TRUE, case_insensitive |-> FALSE] /\ keyOut = {}
    /\ leftData = ScenarioLeft
    /\ rightData = ScenarioRight
    /\ compareKeys = <<"id">>
    /\ compareColumns = <<>>
    /\ compareOptions = [trim |-> TRUE, case_insensitive |-> FALSE]
    /\ sortByKeys = TRUE
    /\ compareResult = Null /\ mergedResult = Null
    /\ selectedColumns = <<>> /\ columnOrder = <<>> /\ sortColumns = <<>>
    /\ splitData = Null /\ splitKeys = <<>> /\ splitResult = Null
    /\ selectedSplitColumns = <<>> /\ splitColumnOrder = <<>>
    /\ splitSortColumns = <<>> /\ zipFiles = <<>>
    /\ engineCall = Null
    /\ lastAlert = ""
    /\ FilesAsLoaded
    /\ ThemeMounted
    /\ draggedColumn = Null

NextOutput ==
    \/ \E header \in {"id", "amt"} : ToggleCompareKey(header)
    \/ handleCompare
    \/ \E header \in OutputHeaders : ToggleOutputColumn(header)
    \/ \E idx \in 0..(MaxOrderEntries - 1) : MoveOutputColumnUp(idx)
    \/ \E idx \in 0..(MaxOrderEntries - 1) : MoveOutputColumnDown(idx)
    \/ \E col \in OutputHeaders : DragStartColumn(col)
    \/ \E col \in OutputHeaders : DropOnColumn(col)
    \/ DragEndColumn

SpecOutput == InitOutput /\ [][NextOutput]_vars

-----------------------------------------------------------------------------
(* C29 *)

\* C29: while a merged result is shown, every key column the compare that
\* produced it was run with, and that is a header of it, is among
\* selectedColumns, also after the key selection has been changed without a
\* new compare.
C29_KeyColumnsStaySelected ==
    (mergedResult # Null /\ engineCall # Null /\ engineCall.op = "compare_files") =>
        \A i \in 1..Len(engineCall.keyColumns) :
            Includes(mergedResult.headers, engineCall.keyColumns[i])
                => Includes(selectedColumns, engineCall.keyColumns[i])

-----------------------------------------------------------------------------
(* C30 *)

\* arr holds no element twice
C30_NoRepeats(arr) == \A i, j \in 1..Len(arr) : arr[i] = arr[j] => i = j

\* C30: after any sequence of compare runs, checks and unchecks of output
\* columns, move-up and move-down clicks and drag-start, drop and drag-end
\* events, columnOrder holds the elements of selectedColumns, each once and no
\* others, and filterColumns gives the selected columns that are headers of
\* the merged table, each once, in the order of columnOrder.
C30_ColumnOrderTracksSelection ==
    mergedResult # Null =>
        /\ { columnOrder[i] : i \in 1..Len(columnOrder) }
              = { selectedColumns[i] : i \in 1..Len(selectedColumns) }
        /\ C30_NoRepeats(columnOrder)
        /\ C30_NoRepeats(selectedColumns)
        /\ filteredMergedResult.headers
              = FilterIn(columnOrder, { mergedResult.headers[i] : i \in 1..Len(mergedResult.headers) })

=============================================================================
